---- MODULE Spec2Model ----
(***************************************************************************)
(* Model of the JIRA team-metrics datasource (src/server.js): the event    *)
(* log builder, the scope/burnup replayer and the cache coordinator.       *)
(*                                                                         *)
(* Dates are integers (epoch instants).  A JavaScript value that may be    *)
(* null or undefined is an option: None is null/undefined, Some(v) is v.   *)
(* An id held as a string that is not the decimal string of an integer is  *)
(* Raw(s): the string s itself.                                            *)
(* Issue ids, version ids and sizes are integers; JIRA delivers ids as     *)
(* decimal strings and the code compares them with the loose ==, which     *)
(* makes "2" and 2 equal: the integer n stands for the number n and for    *)
(* the string of its decimal digits alike.  A string the code parses, or   *)
(* compares character by character, is the sequence of its UTF-16 code     *)
(* units: "10" is <<49, 48>> and "" is <<>>.  Every other string is a      *)
(* string.  The numbers are the integers of TLC, of 32 bits.               *)
(***************************************************************************)
EXTENDS Integers, Sequences, FiniteSets, TLC

None == <<>>
Some(v) == <<v>>
Raw(s) == <<"string", s>>
IsRaw(x) == Len(x) = 2

\* NaN, the number parseInt returns for a string that does not start with a
\* number.  Arithmetic with NaN yields NaN, and NaN differs from every
\* number, itself included.  The model holds it as the one integer below
\* every number: no string parses to it and no sum or product reaches it
\* (parseInt builds a magnitude of at most 2147483647 before it applies the
\* sign, and TLC stops at a result outside its integers).
NaN == -2147483647 - 1
Plus(a, b) == IF a = NaN \/ b = NaN THEN NaN ELSE a + b
Minus(a, b) == IF a = NaN \/ b = NaN THEN NaN ELSE a - b
Times(a, b) == IF a = NaN \/ b = NaN THEN NaN ELSE a * b

RECURSIVE Gcd(_, _)
Gcd(a, b) == IF b = 0 THEN a ELSE Gcd(b, a % b)

\* The number n / d for d > 0, held exact: the integer where the quotient is
\* whole, and otherwise the fraction in lowest terms.
Fraction(n, d) ==
  IF n % d = 0 THEN n \div d
  ELSE LET g == Gcd(IF n < 0 THEN -n ELSE n, d)
       IN [num |-> n \div g, den |-> d \div g]

\* n / d of two numbers, d not 0: NaN when either is.
Quotient(n, d) ==
  IF n = NaN \/ d = NaN THEN NaN
  ELSE IF d < 0 THEN Fraction(-n, -d) ELSE Fraction(n, d)

\* Math.max and Math.min of numbers: NaN when one of them is.
MathMax(values) ==
  IF NaN \in values THEN NaN ELSE CHOOSE v \in values : \A u \in values : u <= v

MathMin(values) ==
  IF NaN \in values THEN NaN ELSE CHOOSE v \in values : \A u \in values : v <= u

\* Number(x) of JavaScript arithmetic: null counts as 0.
ToNum(x) == IF x = None THEN 0 ELSE x[1]

Min(a, b) == IF a <= b THEN a ELSE b

RECURSIVE SumSeq(_)
SumSeq(s) == IF s = <<>> THEN 0 ELSE Plus(s[1], SumSeq(Tail(s)))

RECURSIVE SetToSeq(_)
\* The elements of a finite set of integers in ascending order.
SetToSeq(S) ==
  IF S = {} THEN <<>>
  ELSE LET m == CHOOSE x \in S : \A y \in S : x <= y
       IN <<m>> \o SetToSeq(S \ {m})

(***************************************************************************)
(* Bounds of the model.                                                    *)
(***************************************************************************)
\* The number of tracker operations (field changes) recorded in histories.
MaxOps == 2
\* The last instant of the tracker's clock.
MaxTime == 2

(***************************************************************************)
(* The tracker's universe: one initiative, one epic, one story, one bug,   *)
(* and the releases a fix version can name.                                *)
(***************************************************************************)
Ids == [initiative |-> 1, epic |-> 2, story |-> 3, bug |-> 4]
InitiativeId == Ids.initiative
EpicId == Ids.epic
StoryId == Ids.story
BugId == Ids.bug
IssueIds == {InitiativeId, EpicId, StoryId, BugId}
LeafIds == {StoryId, BugId}

IssueType(i) ==
  CASE i = InitiativeId -> "Initiative"
    [] i = EpicId -> "Epic"
    [] i = StoryId -> "Story"
    [] OTHER -> "Bug"

IssueKey(i) ==
  CASE i = InitiativeId -> "ENG-1"
    [] i = EpicId -> "ENG-2"
    [] i = StoryId -> "ENG-3"
    [] OTHER -> "ENG-4"

VersionIds == {10}
ReleaseId == CHOOSE v \in VersionIds : TRUE

\* The code units of the characters the code's conversions tell apart.
Unit == [zero |-> 48, nine |-> 57, plus |-> 43, minus |-> 45, point |-> 46,
         a |-> 97, z |-> 122, A |-> 65, Z |-> 90]

\* WhiteSpace and LineTerminator of ECMAScript, which parseInt and Number
\* strip: tab, line feed, vertical tab, form feed, carriage return, space,
\* no-break space, the space separators of Unicode, the line and the
\* paragraph separator and the byte order mark.
StrWhiteSpaceChar ==
  {9, 10, 11, 12, 13, 32, 160, 5760, 8232, 8233, 8239, 8287, 12288, 65279}
    \cup (8192..8202)

RECURSIVE NumToString(_)
\* String(n): the decimal string of an integer, as the tracker writes a
\* number into a change item and as parseInt reads a number it is handed.
NumToString(n) ==
  IF n < 0 THEN <<Unit.minus>> \o NumToString(0 - n)
  ELSE IF n < 10 THEN <<Unit.zero + n>>
  ELSE Append(NumToString(n \div 10), Unit.zero + (n % 10))

RECURSIVE TrimStart(_)
TrimStart(s) ==
  IF s # <<>> /\ Head(s) \in StrWhiteSpaceChar THEN TrimStart(Tail(s)) ELSE s

\* The value of a character as a digit, a letter counting from 10 in either
\* case, or -1 for any other character.
DigitValue(c) ==
  IF c >= Unit.zero /\ c <= Unit.nine THEN c - Unit.zero
  ELSE IF c >= Unit.a /\ c <= Unit.z THEN c - Unit.a + 10
  ELSE IF c >= Unit.A /\ c <= Unit.Z THEN c - Unit.A + 10
  ELSE -1

\* parseInt(string), without a radix: leading white space is skipped, a sign
\* is read, "0x" or "0X" selects radix 16, and the digits up to the first
\* character that is none are the number; without a digit the result is NaN.
parseInt(string) ==
  LET S == TrimStart(string)
      signed == S # <<>> /\ Head(S) \in {Unit.plus, Unit.minus}
      sign == IF signed /\ Head(S) = Unit.minus THEN -1 ELSE 1
      unsigned == IF signed THEN Tail(S) ELSE S
      hex == /\ Len(unsigned) >= 2
             /\ unsigned[1] = Unit.zero
             /\ DigitValue(unsigned[2]) = 33      \* x or X
      R == IF hex THEN 16 ELSE 10
      Z == IF hex THEN SubSeq(unsigned, 3, Len(unsigned)) ELSE unsigned
      \* The value of a digit of radix R, or -1 for any other character.
      digit(c) == IF DigitValue(c) < R THEN DigitValue(c) ELSE -1
      RECURSIVE Value(_, _, _)
      Value(s, number, any) ==
        IF s = <<>> \/ digit(Head(s)) = -1
          THEN IF any THEN number ELSE NaN
        ELSE Value(Tail(s), number * R + digit(Head(s)), TRUE)
      number == Value(Z, 0, FALSE)
  IN IF number = NaN THEN NaN ELSE sign * number

RECURSIVE StringLess(_, _)
\* a < b of two strings: the order of the first code units they differ in,
\* and a proper prefix comes before the longer string.
StringLess(a, b) ==
  IF b = <<>> THEN FALSE
  ELSE IF a = <<>> THEN TRUE
  ELSE IF Head(a) = Head(b) THEN StringLess(Tail(a), Tail(b))
  ELSE Head(a) < Head(b)

RECURSIVE TrimEnd(_)
TrimEnd(s) ==
  IF s # <<>> /\ s[Len(s)] \in StrWhiteSpaceChar
    THEN TrimEnd(SubSeq(s, 1, Len(s) - 1))
  ELSE s

RECURSIVE DigitsValue(_, _, _)
\* The number the digits of a radix spell, or NaN for a character that is no
\* digit of the radix.
DigitsValue(s, radix, number) ==
  IF s = <<>> THEN number
  ELSE IF DigitValue(Head(s)) = -1 \/ DigitValue(Head(s)) >= radix THEN NaN
  ELSE DigitsValue(Tail(s), radix, number * radix + DigitValue(Head(s)))

RECURSIVE LeadingDigits(_)
\* The decimal digits a string starts with.
LeadingDigits(s) ==
  IF s # <<>> /\ Head(s) >= Unit.zero /\ Head(s) <= Unit.nine
    THEN <<Head(s)>> \o LeadingDigits(Tail(s))
  ELSE <<>>

RECURSIVE TimesPowerOfTen(_, _)
\* m * 10^e where that is a whole number of the model, and NaN where it is a
\* fraction or lies beyond the integers of the model.
TimesPowerOfTen(m, e) ==
  IF m = 0 \/ m = NaN \/ e = 0 THEN m
  ELSE IF e < 0
    THEN IF m % 10 = 0 THEN TimesPowerOfTen(m \div 10, e + 1) ELSE NaN
  ELSE IF m > 214748364 THEN NaN
  ELSE TimesPowerOfTen(m * 10, e - 1)

\* The exponent part of a decimal literal, after its "e": an optional sign
\* and at least one digit, and nothing behind them.
ExponentPart(mantissa, fractionDigits, s) ==
  LET signed == s # <<>> /\ Head(s) \in {Unit.plus, Unit.minus}
      digits == IF signed THEN Tail(s) ELSE s
  IN IF digits = <<>> \/ LeadingDigits(digits) # digits THEN NaN
     ELSE IF signed /\ Head(s) = Unit.minus
       THEN TimesPowerOfTen(mantissa, 0 - DigitsValue(digits, 10, 0) - fractionDigits)
     ELSE TimesPowerOfTen(mantissa, DigitsValue(digits, 10, 0) - fractionDigits)

\* What follows the digits of a decimal literal: nothing, or an exponent.
AfterDigits(digits, fractionDigits, s) ==
  IF digits = <<>> THEN NaN
  ELSE IF s = <<>>
    THEN TimesPowerOfTen(DigitsValue(digits, 10, 0), 0 - fractionDigits)
  ELSE IF DigitValue(Head(s)) = 14                     \* e or E
    THEN ExponentPart(DigitsValue(digits, 10, 0), fractionDigits, Tail(s))
  ELSE NaN

\* What follows the whole digits of a decimal literal: an optional point and
\* fraction.
AfterWhole(whole, s) ==
  IF s # <<>> /\ Head(s) = Unit.point
    THEN LET fraction == LeadingDigits(Tail(s))
         IN AfterDigits(whole \o fraction, Len(fraction),
                        SubSeq(s, Len(fraction) + 2, Len(s)))
  ELSE AfterDigits(whole, 0, s)

\* An unsigned decimal literal.
UnsignedDecimal(s) ==
  LET whole == LeadingDigits(s)
  IN AfterWhole(whole, SubSeq(s, Len(whole) + 1, Len(s)))

\* A string without white space around it, as a number.
StrNumericLiteral(S) ==
  LET prefix == IF Len(S) >= 2 /\ S[1] = Unit.zero THEN DigitValue(S[2]) ELSE -1
      radix == CASE prefix = 33 -> 16       \* x
                 [] prefix = 24 -> 8        \* o
                 [] prefix = 11 -> 2        \* b
                 [] OTHER -> 10
  IN IF S = <<>> THEN 0
     ELSE IF radix # 10
       THEN IF Len(S) = 2 THEN NaN ELSE DigitsValue(SubSeq(S, 3, Len(S)), radix, 0)
     ELSE IF Head(S) = Unit.minus
       THEN Minus(0, UnsignedDecimal(Tail(S)))
     ELSE IF Head(S) = Unit.plus THEN UnsignedDecimal(Tail(S))
     ELSE UnsignedDecimal(S)

\* Number(string), the conversion the loose == applies to a string it
\* compares with a number (StringToNumber of ECMAScript), where the value is
\* a whole number: white space is stripped at both ends, the empty string is
\* 0, "0x", "0o" and "0b" introduce an unsigned integer of radix 16, 8 and 2,
\* and any other string is a signed decimal with an optional fraction and
\* exponent.  Every other string is NaN, Infinity or a fraction, which equal
\* no id: NaN stands for them all.
StringToNumber(string) == StrNumericLiteral(TrimEnd(TrimStart(string)))

\* a == b of an id the code holds (null, a number or a string) and a number.
LooseEquals(a, b) ==
  IF a = None THEN FALSE
  ELSE IF IsRaw(a) THEN StringToNumber(a[2]) = b
  ELSE a[1] = b

VARIABLES
  \* --- the tracker (JIRA), seen through the search API ---
  jira,            \* issue id -> the issue as the search returns it
  clock,           \* the tracker's current instant
  nextHistoryId,   \* id of the next changelog entry
  ops,             \* tracker operations performed so far
  \* --- one run of calculateScopeAndBurnupTimeseries ---
  pc,              \* "tracker", "replay", "done" or "threw"
  window,          \* the query's window {now, to}
  targetId,        \* the initiative or release replayed for
  isRelease,
  eventLog,        \* the event log replayed
  eventIndex,      \* index of the next event (1-based)
  issuesAtTime,    \* issue id -> snapshot
  detached,        \* reference -> a snapshot object issuesAtTime no longer holds
  keyToIdMap,      \* issue key -> issue id
  versionIssueMap, \* version id -> ids of the issues in it
  totalSize, previousTotalSize,
  totalDoneSize, previousTotalDoneSize,
  scopeData, burnupData,
  gReleaseScopeAndBurnupDataCache,     \* release id -> cache entry
  gInitiativeScopeAndBurnupDataCache,  \* initiative id -> cache entry
  \* --- the cache coordinator ---
  requests,        \* request -> its parameters and its position in the promise chain
  holder,          \* lock key -> the request inside gCacheManagementLock.acquire(key)
  queues,          \* lock key -> the requests waiting for the key, oldest first
  turn,            \* the requests with callbacks still to run in the current turn
  fullIssueArrayCache,               \* gCaches.fullIssueArrayCache
  fullIssueArrayCacheLastUpdateTime, \* gCaches.fullIssueArrayCacheLastUpdateTime
  fullEventLogCache,                 \* gCaches.fullEventLogCache
  fullEventLogCacheLastUpdateTime,   \* gCaches.fullEventLogCacheLastUpdateTime
  velocityCache,   \* gVelocityCache, gVelocityCacheWindow,
                   \* gVelocityCacheFutureStatuses and gVelocityCacheProjectKey
  cycleTimeCache   \* gCycleTimeCache[projectKey]

trackerVars == <<jira, clock, nextHistoryId, ops>>
scopeCacheVars == <<gReleaseScopeAndBurnupDataCache,
                    gInitiativeScopeAndBurnupDataCache>>
replayVars == <<window, targetId, isRelease, eventLog, eventIndex, issuesAtTime,
                detached, keyToIdMap, versionIssueMap, totalSize, previousTotalSize,
                totalDoneSize, previousTotalDoneSize, scopeData, burnupData,
                scopeCacheVars>>
corpusCacheVars == <<fullIssueArrayCache, fullIssueArrayCacheLastUpdateTime>>
eventLogCacheVars == <<fullEventLogCache, fullEventLogCacheLastUpdateTime>>
lockVars == <<holder, queues>>
cacheVars == <<requests, lockVars, turn, corpusCacheVars, eventLogCacheVars,
               velocityCache, cycleTimeCache>>
vars == <<trackerVars, pc, replayVars, cacheVars>>

\* cache[targetId] of the scope and burnup cache of releases or of
\* initiatives: undefined (None) while the cache holds no entry for the id.
ScopeAndBurnupCacheEntry(release, id) ==
  LET cache == IF release THEN gReleaseScopeAndBurnupDataCache
               ELSE gInitiativeScopeAndBurnupDataCache
  IN IF id \in DOMAIN cache THEN Some(cache[id]) ELSE None

\* The entry of the target of the replay.
scopeCache == ScopeAndBurnupCacheEntry(isRelease, targetId)

\* Node runs one callback at a time: the tracker is edited, and a new callback
\* starts, only between the callbacks of the server.
ServerIdle == pc = "tracker" /\ turn = <<>>

(***************************************************************************)
(* The tracker.  Each operation is one user edit in JIRA at the instant    *)
(* `clock`; it changes the issue's current fields and appends one entry    *)
(* to the changelog of every issue it touches, as the search API returns   *)
(* them with expand=changelog.                                             *)
(***************************************************************************)
ChangeItem(fieldId, field, from, fromString, to, toString) ==
  [fieldId |-> fieldId, field |-> field, from |-> from, fromString |-> fromString,
   to |-> to, toString |-> toString]

History(id, created, item) == [id |-> id, created |-> created, items |-> <<item>>]

NewIssue(i, parentLink, epicLink, versions, points) ==
  [id |-> i, key |-> IssueKey(i), issuetype |-> IssueType(i), created |-> 0,
   customfield_10016 |-> points,      \* Story Points
   customfield_10009 |-> parentLink,  \* Parent Link: None or Some([id, key])
   customfield_10008 |-> epicLink,    \* Epic Link: None or Some(key)
   fixVersions |-> versions,
   resolution |-> None,
   status |-> "Backlog",
   project |-> "ENG",                 \* fields.project.key
   histories |-> <<>>]

LinkData(i) == [id |-> i, key |-> IssueKey(i)]

KeyOpt(idOpt) == IF idOpt = None THEN None ELSE Some(IssueKey(idOpt[1]))
StrOpt(numOpt) == IF numOpt = None THEN None ELSE Some(NumToString(numOpt[1]))

\* The id of the epic an issue's Epic Link names.
EpicOf(issue) ==
  IF issue.customfield_10008 = None THEN None
  ELSE Some(CHOOSE i \in IssueIds : IssueKey(i) = issue.customfield_10008[1])

AddHistory(issue, hid, item) ==
  [issue EXCEPT !.histories = Append(@, History(hid, clock, item))]

Tick ==
  /\ ServerIdle /\ clock < MaxTime
  /\ clock' = clock + 1
  /\ UNCHANGED <<jira, nextHistoryId, ops, pc, replayVars, cacheVars>>

\* A story or bug is moved to another epic, or out of its epic.  JIRA records
\* "Epic Link" on the issue and "Epic Child" on the epics concerned.
JiraSetEpicLink(s, e) ==
  LET old == EpicOf(jira[s])
      item == ChangeItem("customfield_10008", "Epic Link",
                         old, KeyOpt(old), e, KeyOpt(e))
      removed == ChangeItem("", "Epic Child", Some(s), Some(IssueKey(s)), None, None)
      added == ChangeItem("", "Epic Child", None, None, Some(s), Some(IssueKey(s)))
  IN /\ ServerIdle /\ ops < MaxOps
     /\ e # old
     /\ jira' = [i \in IssueIds |->
          IF i = s
            THEN AddHistory([jira[s] EXCEPT !.customfield_10008 = KeyOpt(e)],
                            nextHistoryId, item)
          ELSE IF old # None /\ i = old[1]
            THEN AddHistory(jira[i], nextHistoryId + 1, removed)
          ELSE IF e # None /\ i = e[1]
            THEN AddHistory(jira[i], nextHistoryId + 1, added)
          ELSE jira[i]]
     /\ nextHistoryId' = nextHistoryId + 2
     /\ ops' = ops + 1
     /\ UNCHANGED <<clock, pc, replayVars, cacheVars>>

\* An epic is moved under another initiative, or out of its initiative.
JiraSetParentLink(e, p) ==
  LET old == IF jira[e].customfield_10009 = None THEN None
             ELSE Some(jira[e].customfield_10009[1].id)
      item == ChangeItem("customfield_10009", "Parent Link",
                         None, StrOpt(old), None, StrOpt(p))
  IN /\ ServerIdle /\ ops < MaxOps
     /\ p # old
     /\ jira' = [jira EXCEPT ![e] = AddHistory(
          [@ EXCEPT !.customfield_10009 = IF p = None THEN None ELSE Some(LinkData(p[1]))],
          nextHistoryId, item)]
     /\ nextHistoryId' = nextHistoryId + 1
     /\ ops' = ops + 1
     /\ UNCHANGED <<clock, pc, replayVars, cacheVars>>

\* The two ways a tracker writes the empty value of a change item: null and
\* the empty string.
AsNull == None
AsEmptyString == Some(<<>>)

\* The story points of an issue are set or cleared.  The change item holds
\* the two values as strings; the tracker writes the empty value as empty.
JiraSetStoryPoints(i, n, empty) ==
  LET old == jira[i].customfield_10016
      string(points) == IF points = None THEN empty ELSE StrOpt(points)
      item == ChangeItem("customfield_10016", "Story Points",
                         None, string(old), None, string(n))
  IN /\ ServerIdle /\ ops < MaxOps
     /\ n # old
     /\ jira' = [jira EXCEPT ![i] = AddHistory([@ EXCEPT !.customfield_10016 = n],
                                               nextHistoryId, item)]
     /\ nextHistoryId' = nextHistoryId + 1
     /\ ops' = ops + 1
     /\ UNCHANGED <<clock, pc, replayVars, cacheVars>>

\* The statuses of the value stream the issues of the model move through,
\* in the order of the source's list.
STATUSES == <<"Backlog", "Dev", "Done", "Not Doing">>

\* An issue is moved to another status of the workflow.
JiraSetStatus(i, to) ==
  LET old == jira[i].status
      item == ChangeItem("status", "status", None, Some(old), None, Some(to))
  IN /\ ServerIdle /\ ops < MaxOps
     /\ to # old
     /\ jira' = [jira EXCEPT ![i] = AddHistory([@ EXCEPT !.status = to],
                                               nextHistoryId, item)]
     /\ nextHistoryId' = nextHistoryId + 1
     /\ ops' = ops + 1
     /\ UNCHANGED <<clock, pc, replayVars, cacheVars>>

SeqWithout(s, v) == SelectSeq(s, LAMBDA x : x # v)
SeqHas(s, v) == \E k \in DOMAIN s : s[k] = v

JiraAddFixVersion(i, v) ==
  LET item == ChangeItem("fixVersions", "Fix Version", None, None, Some(v), Some("R"))
  IN /\ ServerIdle /\ ops < MaxOps
     /\ ~SeqHas(jira[i].fixVersions, v)
     /\ jira' = [jira EXCEPT ![i] = AddHistory([@ EXCEPT !.fixVersions = Append(@, v)],
                                               nextHistoryId, item)]
     /\ nextHistoryId' = nextHistoryId + 1
     /\ ops' = ops + 1
     /\ UNCHANGED <<clock, pc, replayVars, cacheVars>>

JiraRemoveFixVersion(i, v) ==
  LET item == ChangeItem("fixVersions", "Fix Version", Some(v), Some("R"), None, None)
  IN /\ ServerIdle /\ ops < MaxOps
     /\ SeqHas(jira[i].fixVersions, v)
     /\ jira' = [jira EXCEPT ![i] = AddHistory([@ EXCEPT !.fixVersions = SeqWithout(@, v)],
                                               nextHistoryId, item)]
     /\ nextHistoryId' = nextHistoryId + 1
     /\ ops' = ops + 1
     /\ UNCHANGED <<clock, pc, replayVars, cacheVars>>

Resolutions == {None, Some("Done"), Some("Won't Do")}

JiraSetResolution(i, r) ==
  LET old == jira[i].resolution
      item == ChangeItem("resolution", "resolution", None, old, None, r)
  IN /\ ServerIdle /\ ops < MaxOps
     /\ r # old
     /\ jira' = [jira EXCEPT ![i] = AddHistory([@ EXCEPT !.resolution = r],
                                               nextHistoryId, item)]
     /\ nextHistoryId' = nextHistoryId + 1
     /\ ops' = ops + 1
     /\ UNCHANGED <<clock, pc, replayVars, cacheVars>>

\* The issues of the tracker as an array, every issue, ascending by id: the
\* order in which the corpus cache holds them.
Corpus == [k \in 1..Cardinality(IssueIds) |-> jira[SetToSeq(IssueIds)[k]]]

(***************************************************************************)
(* The event log builder.                                                  *)
(***************************************************************************)
DEFAULT_STORY_SIZE == 0

getIssueSize(issue) ==
  IF issue.customfield_10016 = None THEN DEFAULT_STORY_SIZE
  ELSE parseInt(NumToString(issue.customfield_10016[1]))

\* The first branch is keyed on the issue type "Epic"; the second names the type
\* "Initative", which no issue has, so an Initiative takes the last branch.
getParentIdentifierKey(issue) ==
  IF issue.issuetype = "Epic"
    THEN IF issue.customfield_10009 # None
           THEN Some(issue.customfield_10009[1].key) ELSE None
  ELSE IF issue.issuetype = "Initative" THEN None
  ELSE issue.customfield_10008

getParentIdentifierId(issue) ==
  IF issue.issuetype = "Epic"
    THEN IF issue.customfield_10009 # None
           THEN Some(issue.customfield_10009[1].id) ELSE None
  ELSE IF issue.issuetype = "Initative" THEN None
  ELSE None

\* eventDetails; a property an event does not carry reads as undefined (None).
NoDetails ==
  [issueKey |-> None, size |-> None, type |-> "", parentKey |-> None,
   parentId |-> None, parentID |-> None, resolution |-> None, childId |-> None,
   versionId |-> None, versions |-> <<>>]

Event(datetime, issueId, event, details) ==
  [datetime |-> datetime, issueId |-> issueId, event |-> event, eventDetails |-> details]

CreatedEventOf(issue) ==
  Event(issue.created, issue.id, "created",
        [NoDetails EXCEPT !.issueKey = Some(issue.key),
                          !.size = Some(getIssueSize(issue)),
                          !.type = issue.issuetype,
                          !.parentKey = getParentIdentifierKey(issue),
                          !.parentId = getParentIdentifierId(issue),
                          !.versions = issue.fixVersions])

\* An id held in a change item's string (the Parent Link items).  The code
\* keeps the string: the decimal string of an integer is that id, any other
\* string stays the string it is.
IdOfString(strOpt) ==
  IF strOpt = None THEN None
  ELSE IF /\ parseInt(strOpt[1]) # NaN
          /\ NumToString(parseInt(strOpt[1])) = strOpt[1]
    THEN Some(parseInt(strOpt[1]))
  ELSE Raw(strOpt[1])
SizeFrom(item) ==
  IF item.fromString = None THEN None ELSE Some(parseInt(item.fromString[1]))
SizeTo(item) ==
  IF item.toString = None \/ item.toString = Some(<<>>) THEN None
  ELSE Some(parseInt(item.toString[1]))

IsParentItem(item) ==
  item.fieldId = "customfield_10009" \/ item.fieldId = "customfield_10008"

\* The retroactive correction of the created event by the first parent change.
\* The old id is stored under the property name parentID.
CorrectCreatedParent(created, item) ==
  LET oldId == IF item.fieldId = "customfield_10008" THEN item.from
               ELSE IdOfString(item.fromString)
      oldKey == IF item.fieldId = "customfield_10008" THEN item.fromString ELSE None
  IN [created EXCEPT !.eventDetails.parentID = oldId,
                     !.eventDetails.parentKey = oldKey]

CorrectCreatedSize(created, item) ==
  [created EXCEPT !.eventDetails.size = SizeFrom(item)]

\* findIndex followed by splice(index, 1): the first occurrence is removed.
RemoveFirst(s, v) ==
  IF \E k \in DOMAIN s : s[k] = v
    THEN LET k == CHOOSE j \in DOMAIN s : s[j] = v /\ \A h \in 1..(j - 1) : s[h] # v
         IN SubSeq(s, 1, k - 1) \o SubSeq(s, k + 1, Len(s))
  ELSE s

\* The first change seen for a version: an add means the issue did not start
\* with it, a remove means it did.
CorrectCreatedVersions(created, item) ==
  LET versionId == IF item.from = None THEN item.to[1] ELSE item.from[1]
      has == \E k \in DOMAIN created.eventDetails.versions :
                created.eventDetails.versions[k] = versionId
  IN IF item.from = None
       THEN [created EXCEPT !.eventDetails.versions = RemoveFirst(@, versionId)]
       ELSE IF has THEN created
            ELSE [created EXCEPT !.eventDetails.versions = Append(@, versionId)]

\* The state of the loop over one issue's change items.
ItemLoopStart(issue) ==
  [createdEvent |-> CreatedEventOf(issue), parentChange |-> FALSE,
   sizeChange |-> FALSE, doneCreationReverseForVersions |-> {}, events |-> <<>>]

ProcessChangeItem(acc, issue, change, item) ==
  IF IsParentItem(item) THEN
    LET newId == IF item.fieldId = "customfield_10008" THEN item.to
                 ELSE IdOfString(item.toString)
        newKey == IF item.fieldId = "customfield_10008" THEN item.toString ELSE None
    IN [acc EXCEPT
          !.createdEvent = IF acc.parentChange THEN @ ELSE CorrectCreatedParent(@, item),
          !.parentChange = TRUE,
          !.events = Append(@, Event(change.created, issue.id, "parentChange",
                       [NoDetails EXCEPT !.parentId = newId, !.parentKey = newKey]))]
  ELSE IF item.fieldId = "customfield_10016" THEN
    [acc EXCEPT
       !.createdEvent = IF acc.sizeChange THEN @ ELSE CorrectCreatedSize(@, item),
       !.sizeChange = TRUE,
       !.events = Append(@, Event(change.created, issue.id, "sizeChange",
                    [NoDetails EXCEPT !.size = SizeTo(item)]))]
  ELSE IF item.field = "Epic Child" THEN
    [acc EXCEPT
       !.events = Append(@, Event(change.created, issue.id,
                    IF item.from = None THEN "addChild" ELSE "removeChild",
                    [NoDetails EXCEPT !.childId =
                       IF item.from = None THEN item.to ELSE item.from]))]
  ELSE IF item.fieldId = "fixVersions" THEN
    LET versionId == IF item.from = None THEN item.to[1] ELSE item.from[1]
    IN [acc EXCEPT
          !.events = Append(@, Event(change.created, issue.id,
                       IF item.from = None THEN "addVersion" ELSE "removeVersion",
                       [NoDetails EXCEPT !.versionId = Some(versionId)])),
          !.createdEvent = IF versionId \in acc.doneCreationReverseForVersions THEN @
                           ELSE CorrectCreatedVersions(@, item),
          !.doneCreationReverseForVersions = @ \cup {versionId}]
  ELSE IF item.fieldId = "resolution" THEN
    [acc EXCEPT
       !.events = Append(@, Event(change.created, issue.id, "resolutionChange",
                    [NoDetails EXCEPT !.resolution = item.toString]))]
  ELSE acc

RECURSIVE ProcessItems(_, _, _, _)
ProcessItems(acc, issue, change, items) ==
  IF items = <<>> THEN acc
  ELSE ProcessItems(ProcessChangeItem(acc, issue, change, Head(items)),
                    issue, change, Tail(items))

RECURSIVE ProcessHistories(_, _, _)
ProcessHistories(acc, issue, histories) ==
  IF histories = <<>> THEN acc
  ELSE ProcessHistories(ProcessItems(acc, issue, Head(histories), Head(histories).items),
                        issue, Tail(histories))

\* Array.prototype.sort with the comparator a.key - b.key.  The engine the
\* service runs on (node 12) sorts stably: elements with equal keys keep their
\* order.  Insertion of x behind every element whose key is <= x's.
RECURSIVE InsertPair(_, _)
InsertPair(sorted, x) ==
  IF sorted = <<>> THEN <<x>>
  ELSE IF sorted[Len(sorted)][1] <= x[1] THEN Append(sorted, x)
  ELSE Append(InsertPair(SubSeq(sorted, 1, Len(sorted) - 1), x), sorted[Len(sorted)])

RECURSIVE SortPairs(_)
SortPairs(s) ==
  IF s = <<>> THEN <<>>
  ELSE InsertPair(SortPairs(SubSeq(s, 1, Len(s) - 1)), s[Len(s)])

SortByKey(s, Key(_)) ==
  LET sorted == SortPairs([k \in DOMAIN s |-> <<Key(s[k]), s[k]>>])
  IN [k \in DOMAIN s |-> sorted[k][2]]

HistoryId(h) == h.id
EventDatetime(e) == e.datetime

\* The events one issue contributes, in the order they are pushed: the events
\* of its history, oldest entry first, then its created event.
IssueEvents(issue) ==
  LET acc == ProcessHistories(ItemLoopStart(issue), issue,
                              SortByKey(issue.histories, HistoryId))
  IN Append(acc.events, acc.createdEvent)

RECURSIVE UnsortedEventLog(_)
UnsortedEventLog(issues) ==
  IF issues = <<>> THEN <<>>
  ELSE IssueEvents(Head(issues)) \o UnsortedEventLog(Tail(issues))

\* The events in the order they were pushed, without the sort.
eventLogAsPushed(issues) == UnsortedEventLog(issues)

calculateFullEventLog(issues) == SortByKey(UnsortedEventLog(issues), EventDatetime)

(***************************************************************************)
(* The scope/burnup replayer.                                              *)
(***************************************************************************)
\* A snapshot object is named by a reference: the id of its issue and the
\* count of the objects the replay has made for that id.  issuesAtTime holds
\* the latest object of each id; an object a later created event of the same
\* id replaced in issuesAtTime lives on in the children arrays that hold it.
RefOf(id) == <<id, 1 + Cardinality({ref \in DOMAIN detached : ref[1] = id})>>
Deref(issues, ref) ==
  IF ref \in DOMAIN detached THEN detached[ref] ELSE issues[ref[1]]

\* A bound on the snapshot objects of a replay.  A recursion over the
\* objects that nests more calls than there are objects has come back to an
\* object: it nests calls without end, until the engine throws "RangeError:
\* Maximum call stack size exceeded".
ObjectCount(issues) ==
  Cardinality(DOMAIN issues) + Cardinality(DOMAIN detached) + 1

\* A created event whose snapshot holds the versions array of the event
\* itself.
SnapshotSharingVersions(event) ==
  [id |-> event.issueId, key |-> event.eventDetails.issueKey[1],
   type |-> event.eventDetails.type, size |-> event.eventDetails.size,
   resolved |-> FALSE, parentId |-> event.eventDetails.parentId,
   parentKey |-> event.eventDetails.parentKey, children |-> <<>>,
   versions |-> event.eventDetails.versions, versionsOf |-> Some(eventIndex)]

\* The snapshot a created event inserts.  children holds references to child
\* snapshots.  versions is a new array with the elements of the event's:
\* versionsOf names the event of the log whose array the snapshot holds, and
\* is None for an array of the snapshot's own.
Snapshot(event) ==
  [id |-> event.issueId, key |-> event.eventDetails.issueKey[1],
   type |-> event.eventDetails.type, size |-> event.eventDetails.size,
   resolved |-> FALSE, parentId |-> event.eventDetails.parentId,
   parentKey |-> event.eventDetails.parentKey, children |-> <<>>,
   versions |-> event.eventDetails.versions, versionsOf |-> None]

\* The parent an ancestry check follows from a snapshot: its parentId, or the
\* id its parentKey maps to when parentId is null.
ResolvedParent(k2i, issue) ==
  IF issue.parentId # None THEN issue.parentId
  ELSE IF issue.parentKey # None /\ issue.parentKey[1] \in DOMAIN k2i
         THEN Some(k2i[issue.parentKey[1]])
  ELSE None

\* issues[parentId] != null: the table is keyed by the decimal strings of the
\* ids, so no other string names an entry.
HasSnapshot(issues, parentId) == ~IsRaw(parentId) /\ parentId[1] \in DOMAIN issues

RECURSIVE isChildOfWithin(_, _, _, _, _)
\* isChildOf with the calls it may still nest: "true", "false", or
\* "RangeError" for an ancestry that leads back into itself.
isChildOfWithin(issues, k2i, issue, parentIssueId, calls) ==
  LET parentId == ResolvedParent(k2i, issue)
  IN IF LooseEquals(parentId, parentIssueId) THEN "true"
     ELSE IF parentId # None
       THEN IF HasSnapshot(issues, parentId)
              THEN IF calls = 0 THEN "RangeError"
                   ELSE isChildOfWithin(issues, k2i, issues[parentId[1]],
                                        parentIssueId, calls - 1)
            ELSE "false"
     ELSE "false"

isChildOf(issues, k2i, issue, parentIssueId) ==
  isChildOfWithin(issues, k2i, issue, parentIssueId, ObjectCount(issues)) = "true"

RECURSIVE calculateTotalSizeWithin(_, _, _, _)
\* calculateTotalSize with the calls it may still nest: Some(total), or None
\* (a RangeError) where a snapshot is among the children below it.
calculateTotalSizeWithin(issues, issue, onlyResolved, calls) ==
  LET ofChildren == [k \in DOMAIN issue.children |->
                       IF calls = 0 THEN None
                       ELSE calculateTotalSizeWithin(
                              issues, Deref(issues, issue.children[k]),
                              onlyResolved, calls - 1)]
      own == IF onlyResolved THEN (IF issue.resolved THEN ToNum(issue.size) ELSE 0)
             ELSE ToNum(issue.size)
  IN IF \E k \in DOMAIN ofChildren : ofChildren[k] = None THEN None
     ELSE Some(Plus(SumSeq([k \in DOMAIN ofChildren |-> ofChildren[k][1]]), own))

\* The total where the recursion returns.
calculateTotalSize(issues, issue, onlyResolved) ==
  calculateTotalSizeWithin(issues, issue, onlyResolved, ObjectCount(issues))[1]

maintainVersionMap(map, versionId, issueId, addToVersion) ==
  IF addToVersion
    THEN IF SeqHas(map[versionId], issueId) THEN map
         ELSE [map EXCEPT ![versionId] = Append(@, issueId)]
  ELSE [map EXCEPT ![versionId] = RemoveFirst(@, issueId)]

RECURSIVE MaintainAll(_, _, _)
MaintainAll(map, versions, issueId) ==
  IF versions = <<>> THEN map
  ELSE MaintainAll(maintainVersionMap(map, Head(versions), issueId, TRUE),
                   Tail(versions), issueId)

Windows ==
  {[now |-> n, to |-> t] : n \in {MaxTime - 1, MaxTime}, t \in {MaxTime - 1, MaxTime + 1}}

\* A call of calculateScopeAndBurnupTimeseries(window, eventLog, targetId,
\* isRelease): the locals the function declares on entry.
calculateScopeAndBurnupTimeseries(w, log, target, release) ==
  /\ pc' = "replay"
  /\ window' = w
  /\ targetId' = target
  /\ isRelease' = release
  /\ eventLog' = log
  /\ eventIndex' = 1
  /\ issuesAtTime' = <<>>
  /\ detached' = <<>>
  /\ keyToIdMap' = <<>>
  /\ versionIssueMap' = [v \in VersionIds |-> <<>>]
  /\ totalSize' = 0 /\ previousTotalSize' = None
  /\ totalDoneSize' = 0 /\ previousTotalDoneSize' = None
  /\ scopeData' = <<>> /\ burnupData' = <<>>
  /\ UNCHANGED <<trackerVars, scopeCacheVars>>

\* unsafeGetScopeAndBurnupCacheUpdatePromise hands the event log of the corpus
\* to calculateScopeAndBurnupTimeseries.
BeginReplay(w, target, release, log) ==
  /\ pc = "tracker"
  /\ calculateScopeAndBurnupTimeseries(w, log, target, release)

\* calculateScopeAndBurnupTimeseries(window, calculateFullEventLog(issues),
\* targetId, isRelease), called on the issues of the tracker as they are: the
\* log builder and the replay on their own, which write the scope and burnup
\* cache and read neither the locks nor the other caches of the server.  The
\* cache coordinator below models the promises that call them in the server.
StartReplay(w, target, release) ==
  /\ turn = <<>>
  /\ BeginReplay(w, target, release, calculateFullEventLog(Corpus))
  /\ UNCHANGED cacheVars

\* The function is called again with the array of events, the window and the
\* target of the call that returned, as a later query with the same window
\* calls it with the array the event log cache still holds.
ReplayAgain ==
  /\ pc = "done" /\ turn = <<>>
  /\ calculateScopeAndBurnupTimeseries(window, eventLog, targetId, isRelease)
  /\ UNCHANGED cacheVars

CurEvent == eventLog[eventIndex]

Known(id) == id \in DOMAIN issuesAtTime

\* Does the handler of the current event nest calls of isChildOf or of
\* calculateTotalSize without end?  The calls are those the handler makes, in
\* its order, on the snapshots as it has changed them by then.
ExceedsCallStack ==
  LET known == Known(CurEvent.issueId)
      issue == issuesAtTime[CurEvent.issueId]
      childOf(issues, k2i, of) ==
        isChildOfWithin(issues, k2i, of, targetId, ObjectCount(issues))
      sizeOf(issues, of) ==
        calculateTotalSizeWithin(issues, of, FALSE, ObjectCount(issues))
      \* isChildOf(issues, keyToIdMap, of, targetId) and, where it holds, the
      \* calculateTotalSize(sized) that follows it
      counted(issues, k2i, of, sized) ==
        \/ childOf(issues, k2i, of) = "RangeError"
        \/ childOf(issues, k2i, of) = "true" /\ sizeOf(issues, sized) = None
  IN CASE CurEvent.event = "created" ->
            LET new == Snapshot(CurEvent)
            IN /\ ~isRelease
               /\ counted((new.id :> new) @@ issuesAtTime,
                          (new.key :> new.id) @@ keyToIdMap, new, new)
       [] CurEvent.event = "parentChange" ->
            /\ known /\ ~isRelease
            /\ LET moved == [issue EXCEPT !.parentId = CurEvent.eventDetails.parentId]
                   issues == [issuesAtTime EXCEPT ![issue.id] = moved]
               IN \/ counted(issuesAtTime, keyToIdMap, issue, issue)
                  \/ counted(issues, keyToIdMap, moved, moved)
       [] CurEvent.event = "sizeChange" ->
            /\ known /\ ~isRelease
            /\ childOf(issuesAtTime, keyToIdMap, issue) = "RangeError"
       [] CurEvent.event = "addChild" ->
            /\ known /\ ~isRelease /\ Known(CurEvent.eventDetails.childId[1])
            /\ LET childId == CurEvent.eventDetails.childId[1]
                   issues == [issuesAtTime EXCEPT
                                ![issue.id].children = Append(@, RefOf(childId))]
               IN counted(issues, keyToIdMap, issues[issue.id], issues[childId])
       [] CurEvent.event = "resolutionChange" ->
            /\ known /\ ~isRelease
            /\ childOf(issuesAtTime, keyToIdMap, issue) = "RangeError"
       [] CurEvent.event \in {"addVersion", "removeVersion"} ->
            /\ known /\ isRelease
            /\ CurEvent.eventDetails.versionId[1] = targetId
            /\ issue.type \in {"Story", "Bug"}
            /\ sizeOf(issuesAtTime, issue) = None
       [] OTHER -> FALSE

InLoop(kind) ==
  /\ pc = "replay"
  /\ eventIndex <= Len(eventLog)
  /\ CurEvent.datetime <= window.to
  /\ CurEvent.event = kind
  /\ ~ExceedsCallStack

\* The end of the loop body: a point is recorded for each total that changed,
\* and a total that is NaN differs from the one before it.
Record(newTotal, newDone) ==
  /\ totalSize' = newTotal
  /\ totalDoneSize' = newDone
  /\ scopeData' = IF newTotal = NaN \/ Some(newTotal) # previousTotalSize
                    THEN Append(scopeData, <<newTotal, CurEvent.datetime>>)
                  ELSE scopeData
  /\ previousTotalSize' = Some(newTotal)
  /\ burnupData' = IF newDone = NaN \/ Some(newDone) # previousTotalDoneSize
                     THEN Append(burnupData, <<newDone, CurEvent.datetime>>)
                   ELSE burnupData
  /\ previousTotalDoneSize' = Some(newDone)
  /\ eventIndex' = eventIndex + 1
  /\ UNCHANGED <<trackerVars, cacheVars, pc, window, targetId, isRelease,
                 scopeCacheVars>>

\* issuesAtTime[issue.id] = issue: an object the table held for the id leaves
\* the table and stays the object it was.
ReplayCreated ==
  LET issue == Snapshot(CurEvent)
      issues == (issue.id :> issue) @@ issuesAtTime
      k2i == (issue.key :> issue.id) @@ keyToIdMap
      add == IF ~isRelease /\ isChildOf(issues, k2i, issue, targetId)
               THEN calculateTotalSize(issues, issue, FALSE)
             ELSE IF isRelease /\ issue.type \in {"Bug", "Story"}
                     /\ SeqHas(issue.versions, targetId)
               THEN calculateTotalSize(issues, issue, FALSE)
             ELSE 0
  IN /\ InLoop("created")
     /\ issuesAtTime' = issues
     /\ detached' = IF Known(issue.id)
                      THEN (RefOf(issue.id) :> issuesAtTime[issue.id]) @@ detached
                    ELSE detached
     /\ keyToIdMap' = k2i
     /\ versionIssueMap' = MaintainAll(versionIssueMap, issue.versions, issue.id)
     /\ UNCHANGED eventLog
     /\ Record(Plus(totalSize, add), totalDoneSize)

ReplayParentChange ==
  LET issue == issuesAtTime[CurEvent.issueId]
      before == ~isRelease /\ isChildOf(issuesAtTime, keyToIdMap, issue, targetId)
      moved == [issue EXCEPT !.parentId = CurEvent.eventDetails.parentId]
      issues == [issuesAtTime EXCEPT ![issue.id] = moved]
      after == ~isRelease /\ isChildOf(issues, keyToIdMap, moved, targetId)
      size == Plus(IF before THEN Minus(0, calculateTotalSize(issuesAtTime, issue, FALSE))
                   ELSE 0,
                   IF after THEN calculateTotalSize(issues, moved, FALSE) ELSE 0)
      donePoints ==
              Plus(IF before THEN Minus(0, calculateTotalSize(issuesAtTime, issue, TRUE))
                   ELSE 0,
                   IF after THEN calculateTotalSize(issues, moved, TRUE) ELSE 0)
  IN /\ InLoop("parentChange")
     /\ Known(CurEvent.issueId)
     /\ issuesAtTime' = issues
     /\ UNCHANGED <<eventLog, detached, keyToIdMap, versionIssueMap>>
     /\ Record(Plus(totalSize, size), Plus(totalDoneSize, donePoints))

\* Does the issue count toward the target, as sizeChange tests it?
CountsForSizeChange(issues, issue) ==
  \/ isRelease /\ SeqHas(issue.versions, targetId)
  \/ ~isRelease /\ isChildOf(issues, keyToIdMap, issue, targetId)

ReplaySizeChange ==
  LET issue == issuesAtTime[CurEvent.issueId]
      previousSize == issue.size
      resized == [issue EXCEPT !.size = CurEvent.eventDetails.size]
      issues == [issuesAtTime EXCEPT ![issue.id] = resized]
      counts == CountsForSizeChange(issues, resized)
      \* total - previousSize + issue.size
      changed(total) == Plus(Minus(total, ToNum(previousSize)), ToNum(resized.size))
  IN /\ InLoop("sizeChange")
     /\ Known(CurEvent.issueId)
     /\ issuesAtTime' = issues
     /\ UNCHANGED <<eventLog, detached, keyToIdMap, versionIssueMap>>
     /\ Record(IF counts THEN changed(totalSize) ELSE totalSize,
               IF counts /\ resized.resolved THEN changed(totalDoneSize)
               ELSE totalDoneSize)

\* A child id the snapshot table does not know (a deleted issue) is skipped
\* before the parent snapshot is touched.  The parent's array receives the
\* child object the table holds.
ReplayAddChild ==
  LET childId == CurEvent.eventDetails.childId[1]
      issue == issuesAtTime[CurEvent.issueId]
      issues == [issuesAtTime EXCEPT ![issue.id].children = Append(@, RefOf(childId))]
      counts == ~isRelease /\ isChildOf(issues, keyToIdMap, issues[issue.id], targetId)
  IN /\ InLoop("addChild")
     /\ IF Known(childId)
          THEN /\ Known(CurEvent.issueId)
               /\ issuesAtTime' = issues
               /\ Record(IF counts
                           THEN Plus(totalSize,
                                     calculateTotalSize(issues, issues[childId], FALSE))
                         ELSE totalSize,
                         IF counts
                           THEN Plus(totalDoneSize,
                                     calculateTotalSize(issues, issues[childId], TRUE))
                         ELSE totalDoneSize)
          ELSE /\ UNCHANGED issuesAtTime
               /\ Record(totalSize, totalDoneSize)
     /\ UNCHANGED <<eventLog, detached, keyToIdMap, versionIssueMap>>

\* Reading a property an object does not have yields undefined.
Prop(obj, name) == IF name \in DOMAIN obj THEN Some(obj[name]) ELSE None

\* children.findIndex(child => child.issueId == childId): 0 stands for -1.
FindChildIndex(issues, children, childIdOpt) ==
  IF \E k \in DOMAIN children :
       Prop(Deref(issues, children[k]), "issueId") = childIdOpt
    THEN CHOOSE k \in DOMAIN children :
           /\ Prop(Deref(issues, children[k]), "issueId") = childIdOpt
           /\ \A h \in 1..(k - 1) :
                Prop(Deref(issues, children[h]), "issueId") # childIdOpt
  ELSE 0

ReplayRemoveChild ==
  LET issue == issuesAtTime[CurEvent.issueId]
      childIndex == FindChildIndex(issuesAtTime, issue.children, CurEvent.eventDetails.childId)
      issues == [issuesAtTime EXCEPT ![issue.id].children =
                   SubSeq(@, 1, childIndex - 1) \o SubSeq(@, childIndex + 1, Len(@))]
      exChild == issuesAtTime[CurEvent.eventDetails.childId[1]]
      counts == ~isRelease /\ isChildOf(issues, keyToIdMap, issues[issue.id], targetId)
  IN /\ InLoop("removeChild")
     /\ Known(CurEvent.issueId)
     /\ IF childIndex # 0
          THEN /\ issuesAtTime' = issues
               /\ Record(IF counts
                           THEN Minus(totalSize,
                                      calculateTotalSize(issues, exChild, FALSE))
                         ELSE totalSize,
                         IF counts
                           THEN Minus(totalDoneSize,
                                      calculateTotalSize(issues, exChild, TRUE))
                         ELSE totalDoneSize)
          ELSE /\ UNCHANGED issuesAtTime
               /\ Record(totalSize, totalDoneSize)
     /\ UNCHANGED <<eventLog, detached, keyToIdMap, versionIssueMap>>

CountsForResolutionChange(issues, issue) ==
  \/ isRelease /\ SeqHas(issue.versions, targetId) /\ issue.type \in {"Story", "Bug"}
  \/ ~isRelease /\ isChildOf(issues, keyToIdMap, issue, targetId)

ReplayResolutionChange ==
  LET issue == issuesAtTime[CurEvent.issueId]
      resolved == [issue EXCEPT !.resolved = (CurEvent.eventDetails.resolution = Some("Done"))]
      issues == [issuesAtTime EXCEPT ![issue.id] = resolved]
  IN /\ InLoop("resolutionChange")
     /\ Known(CurEvent.issueId)
     /\ issuesAtTime' = issues
     /\ UNCHANGED <<eventLog, detached, keyToIdMap, versionIssueMap>>
     /\ Record(totalSize,
               IF CountsForResolutionChange(issues, resolved)
                 THEN IF resolved.resolved THEN Plus(totalDoneSize, ToNum(resolved.size))
                      ELSE Minus(totalDoneSize, ToNum(resolved.size))
               ELSE totalDoneSize)

\* issue.versions.push and issue.versions.splice change the array the
\* snapshot holds: an array of an event of the log changes in the log.
WriteVersions(issue, versions) ==
  IF issue.versionsOf = None THEN eventLog
  ELSE [eventLog EXCEPT ![issue.versionsOf[1]].eventDetails.versions = versions]

\* Version events are implemented for release targets only.
ReplayVersionChange ==
  LET issue == issuesAtTime[CurEvent.issueId]
      versionId == CurEvent.eventDetails.versionId[1]
      adding == CurEvent.event = "addVersion"
      changed == [issue EXCEPT !.versions =
                    IF adding THEN Append(@, versionId) ELSE RemoveFirst(@, versionId)]
      issues == [issuesAtTime EXCEPT ![issue.id] = changed]
      counts == versionId = targetId /\ changed.type \in {"Story", "Bug"}
      sizeToChangeBy == calculateTotalSize(issues, changed, FALSE)
      doneSizeToChangeBy == calculateTotalSize(issues, changed, TRUE)
  IN /\ pc = "replay" /\ eventIndex <= Len(eventLog) /\ CurEvent.datetime <= window.to
     /\ CurEvent.event \in {"addVersion", "removeVersion"}
     /\ isRelease
     /\ Known(CurEvent.issueId)
     /\ ~ExceedsCallStack
     /\ issuesAtTime' = issues
     /\ eventLog' = WriteVersions(issue, changed.versions)
     /\ versionIssueMap' = maintainVersionMap(versionIssueMap, versionId, issue.id, adding)
     /\ UNCHANGED <<detached, keyToIdMap>>
     /\ Record(IF ~counts THEN totalSize
               ELSE IF adding THEN Plus(totalSize, sizeToChangeBy)
               ELSE Minus(totalSize, sizeToChangeBy),
               IF ~counts THEN totalDoneSize
               ELSE IF adding THEN Plus(totalDoneSize, doneSizeToChangeBy)
               ELSE Minus(totalDoneSize, doneSizeToChangeBy))

\* For an initiative target a version event matches no branch of the loop.
ReplaySkipVersionChange ==
  /\ pc = "replay" /\ eventIndex <= Len(eventLog) /\ CurEvent.datetime <= window.to
  /\ CurEvent.event \in {"addVersion", "removeVersion"}
  /\ ~isRelease
  /\ UNCHANGED <<eventLog, issuesAtTime, detached, keyToIdMap, versionIssueMap>>
  /\ Record(totalSize, totalDoneSize)

\* An event of an issue without a snapshot dereferences undefined.
Dereferences(kind) ==
  \/ kind \in {"parentChange", "sizeChange", "removeChild", "resolutionChange"}
  \/ kind = "addChild" /\ Known(CurEvent.eventDetails.childId[1])
  \/ kind \in {"addVersion", "removeVersion"} /\ isRelease

\* The replay ends with an exception and never reaches the cache update: a
\* TypeError at an event of an issue without a snapshot, a RangeError in a
\* handler whose calls nest without end.
ReplayThrows ==
  /\ pc = "replay" /\ eventIndex <= Len(eventLog) /\ CurEvent.datetime <= window.to
  /\ \/ ~Known(CurEvent.issueId) /\ Dereferences(CurEvent.event)
     \/ ExceedsCallStack
  /\ pc' = "threw"
  /\ UNCHANGED <<trackerVars, replayVars, cacheVars>>

\* After the loop: the trailing point and the cache entry, cache[targetId] of
\* the cache of releases or of the cache of initiatives.
ReplayFinish ==
  LET last == IF window.now >= window.to THEN window.to ELSE window.now
      scope == Append(scopeData, <<totalSize, last>>)
      burnup == Append(burnupData, <<totalDoneSize, last>>)
      entry == [scopeData |-> scope, burnupData |-> burnup, lastUpdateTime |-> last]
  IN /\ pc = "replay"
     /\ IF eventIndex > Len(eventLog) THEN TRUE ELSE CurEvent.datetime > window.to
     /\ scopeData' = scope
     /\ burnupData' = burnup
     /\ IF isRelease
          THEN /\ gReleaseScopeAndBurnupDataCache' =
                    (targetId :> entry) @@ gReleaseScopeAndBurnupDataCache
               /\ UNCHANGED gInitiativeScopeAndBurnupDataCache
          ELSE /\ gInitiativeScopeAndBurnupDataCache' =
                    (targetId :> entry) @@ gInitiativeScopeAndBurnupDataCache
               /\ UNCHANGED gReleaseScopeAndBurnupDataCache
     /\ pc' = "done"
     /\ UNCHANGED <<trackerVars, cacheVars, window, targetId, isRelease, eventLog,
                    eventIndex, detached,
                    issuesAtTime, keyToIdMap, versionIssueMap, totalSize,
                    previousTotalSize, totalDoneSize, previousTotalDoneSize>>

(***************************************************************************)
(* The cache coordinator.  A request is one promise chain of a /query      *)
(* target: it enters gCacheManagementLock.acquire for the cache it reads,  *)
(* and while that cache is stale for its window it enters the lock of the  *)
(* cache below, down to the corpus, which it refreshes from the tracker    *)
(* page by page.  `turn` is the queue of promise callbacks of one turn of   *)
(* the event loop: a search response, or the arrival of a query, runs to   *)
(* completion through every callback it makes ready, oldest first.  The    *)
(* function a request runs inside a lock is one callback with the acquires *)
(* it makes on its way down; each promise between it and the next code of  *)
(* the request is one more callback of the queue.                          *)
(***************************************************************************)
\* The number of requests.
NumReqs == 2
\* jiraRes.maxResults, the page size of the tracker's search.
MaxResults == 2

Reqs == 1..NumReqs
Kinds == {"initiative", "velocity", "cycleTime"}
LockKeys == {"scopeAndBurnupCache", "fullEventLogCache", "fullIssueArrayCache",
             "velocityCache", "cycleTimeCache"}

\* The keys a request of each kind acquires, outermost first.
\* A 'Release Projection' target is of kind "release" while it updates the
\* scope and burnup cache of its release, and of kind "limits" while it
\* updates the velocity cache for its velocity bounds.  An 'Initiative
\* Release Projection' target is of kind "initiative".  The targets
\* 'Current 2 week velocity' and 'Current 2 week average cycle time per
\* point' are of kind "velocity" and "cycleTime", the targets 'Rolling 2
\* week velocity' and 'Rolling 2 week average cycle time per point' of kind
\* "rollingVelocity" and "rollingCycleTime".  A 'Release Progress' target
\* is of kind "progress": it updates the scope and burnup cache of its
\* version and asks the tracker for the version.
LockChain(kind) ==
  CASE kind \in {"release", "initiative", "progress"} ->
         <<"scopeAndBurnupCache", "fullEventLogCache", "fullIssueArrayCache">>
    [] kind \in {"velocity", "rollingVelocity", "limits"} ->
         <<"velocityCache", "fullIssueArrayCache">>
    [] OTHER -> <<"cycleTimeCache", "fullIssueArrayCache">>

CurLock(q) == LockChain(q.kind)[q.depth]

NoRequest ==
  [state |-> "idle", kind |-> "initiative",
   window |-> [now |-> 0, from |-> 0, to |-> 0, intervalMs |-> 1],
   data |-> [fromStatus |-> "Backlog", toStatus |-> "Not Doing",
             projectKey |-> None,    \* target.data, with the defaults of
                                     \* getFromStatus, getToStatus, getProjectKey,
             vSource |-> "Limits",   \* getVelocitySource, getVelocityBounds
             vBounds |-> [max |-> 0, cur |-> 0, min |-> 0],
             releaseDate |-> None,   \* and getTargetReleaseDate: the current time
             initiativeId |-> None,  \* getInitiativeId and getReleaseId: null,
             releaseId |-> None,
             versionIds |-> <<>>],   \* getVersionIds: no version
   version |-> "none",     \* gJira.version.getVersion of a 'Release Progress'
                           \* target: "none", "asked", "named" or "failed"
   bounds |-> None,        \* the velocity bounds getDetermineVelocityLimitsPromise
                           \* resolved with
   depth |-> 1,
   hops |-> 0,             \* promises that settle, each in a callback of its own,
                           \* before the next code of the request runs
   startAt |-> 0, extraIssues |-> <<>>,  \* arguments of the paginated fetch
   searches |-> 0,         \* tracker searches the request has issued
   behind |-> None,        \* the request that held the corpus lock when this one queued
   staleWhenQueued |-> FALSE,
   corpus |-> "none",      \* "none", "fetching", "fetched", "reused" or "failed"
   before |-> None,        \* the corpus cache when the request's fetch began,
                           \* kept by a request whose fetch failed
   response |-> "none",    \* what the query's caller was sent: "none" or "json"
   result |-> <<>>,        \* the series pushed to the result of the query
   returned |-> <<>>]      \* the issues the pages of the request's fetch carried,
                           \* each in the version of the last page that carried it

\* The data of the targets of the model's panels: they name the initiative
\* and the release of the tracker.
PanelData ==
  [NoRequest.data EXCEPT !.initiativeId = Some(InitiativeId),
                         !.releaseId = Some(ReleaseId),
                         !.versionIds = <<ReleaseId>>]

\* The id a target hands getScopeAndBurnupCacheUpdatePromise: the
\* initiative, the release, or the version of a 'Release Progress' target,
\* which names one version in the model.
TargetId(q) ==
  CASE q.kind = "initiative" -> q.data.initiativeId[1]
    [] q.kind = "progress" -> q.data.versionIds[1]
    [] OTHER -> q.data.releaseId[1]

\* isRelease as the target hands it on.
ForRelease(q) == q.kind # "initiative"

\* scopeAndBurnupDataCache at the head of
\* unsafeGetScopeAndBurnupCacheUpdatePromise.
scopeAndBurnupDataCache(q) == ScopeAndBurnupCacheEntry(ForRelease(q), TargetId(q))

\* The name the tracker gives a version.
VersionName(versionId) == "1.0"

\* A staleness test that looks at the window's now alone.
outOfDateByNow(w, lastUpdateTime) ==
  IF lastUpdateTime = None THEN TRUE ELSE w.now > lastUpdateTime[1]

\* A staleness test that looks at the window's end alone.
outOfDateByWindowEnd(w, lastUpdateTime) ==
  IF lastUpdateTime = None THEN TRUE ELSE w.to > lastUpdateTime[1]

\* The staleness test shared by the corpus, event log, scope and cycle caches.
outOfDate(w, lastUpdateTime) ==
  IF lastUpdateTime = None THEN TRUE
  ELSE IF w.to > w.now THEN w.now > lastUpdateTime[1]
       ELSE w.to > lastUpdateTime[1]

\* The status arrays of a request are fresh arrays built for it by
\* getFutureStatusesFromStartingStatus; != compares them by identity, which
\* is the request's.
StatusArrays(r) == r

\* A staleness test that compares the windows alone, and neither the status
\* arrays nor the project key a cached series was computed for.
StaleByWindowAlone(r) ==
  LET q == requests[r]
      key == CurLock(q)
  IN CASE key = "fullIssueArrayCache" ->
            outOfDate(q.window, fullIssueArrayCacheLastUpdateTime)
       [] key = "fullEventLogCache" ->
            outOfDate(q.window, fullEventLogCacheLastUpdateTime)
       [] key = "scopeAndBurnupCache" ->
            \/ scopeAndBurnupDataCache(q) = None
            \/ outOfDate(q.window,
                         Some(scopeAndBurnupDataCache(q)[1].lastUpdateTime))
       [] key = "velocityCache" ->
            \/ velocityCache = None
            \/ q.window.to > velocityCache[1].window.to
            \/ q.window.intervalMs # velocityCache[1].window.intervalMs
       [] OTHER ->
            \/ cycleTimeCache = None
            \/ outOfDate(q.window, Some(cycleTimeCache[1].lastUpdateTime))

\* The test at the head of each unsafeGet...CacheUpdatePromise.
Stale(r) ==
  LET q == requests[r]
      key == CurLock(q)
  IN CASE key = "fullIssueArrayCache" ->
            outOfDate(q.window, fullIssueArrayCacheLastUpdateTime)
       [] key = "fullEventLogCache" ->
            outOfDate(q.window, fullEventLogCacheLastUpdateTime)
       [] key = "scopeAndBurnupCache" ->
            \/ scopeAndBurnupDataCache(q) = None
            \/ outOfDate(q.window,
                         Some(scopeAndBurnupDataCache(q)[1].lastUpdateTime))
       [] key = "velocityCache" ->
            \/ velocityCache = None
            \/ q.window.to > velocityCache[1].window.to
            \/ q.window.intervalMs # velocityCache[1].window.intervalMs
            \/ StatusArrays(r) # velocityCache[1].futureStatuses
            \/ velocityCache[1].projectKey # q.data.projectKey
       [] OTHER ->
            \/ cycleTimeCache = None
            \/ outOfDate(q.window, Some(cycleTimeCache[1].lastUpdateTime))
            \/ cycleTimeCache[1].fromStatuses # StatusArrays(r)
            \/ cycleTimeCache[1].futureStatuses # StatusArrays(r)

Running(r) == turn # <<>> /\ Head(turn) = r

\* The queue once the running request has queued its next callback.
Later(r) == Tail(turn) \o <<r>>

\* POST /query: the window is stamped with the current instant and the chain
\* of the target starts with the acquire of its outermost lock.
Arrive(r, kind, from, to, intervalMs, data) ==
  /\ ServerIdle
  /\ requests[r].state = "idle"
  /\ IF r = 1 THEN TRUE ELSE requests[r - 1].state # "idle"
  /\ requests' = [requests EXCEPT ![r] =
       [NoRequest EXCEPT !.state = "acquire", !.kind = kind, !.data = data,
                         !.version = IF kind = "progress" THEN "asked" ELSE "none",
                         !.window = [now |-> clock, from |-> from, to |-> to,
                                     intervalMs |-> intervalMs]]]
  /\ turn' = <<r>>
  /\ UNCHANGED <<trackerVars, pc, replayVars, lockVars, corpusCacheVars,
                 eventLogCacheVars, velocityCache, cycleTimeCache>>

\* gCacheManagementLock.acquire(key, fn): fn runs at once when the key is
\* free, and otherwise after every earlier caller's promise has settled.
Acquire(r) ==
  LET q == requests[r]
      key == CurLock(q)
      forCorpus == key = "fullIssueArrayCache"
  IN /\ Running(r) /\ q.state = "acquire"
     /\ IF holder[key] = None
          THEN /\ holder' = [holder EXCEPT ![key] = Some(r)]
               /\ requests' = [requests EXCEPT ![r].state = "check"]
               /\ UNCHANGED <<queues, turn>>
          ELSE /\ queues' = [queues EXCEPT ![key] = Append(@, r)]
               /\ requests' = [requests EXCEPT ![r] =
                    [q EXCEPT !.state = "waiting",
                              !.behind = IF forCorpus THEN holder[key] ELSE @,
                              !.staleWhenQueued = forCorpus /\ Stale(r)]]
               /\ turn' = Tail(turn)
               /\ UNCHANGED holder
     /\ UNCHANGED <<trackerVars, pc, replayVars, corpusCacheVars,
                    eventLogCacheVars, velocityCache, cycleTimeCache>>

\* The head of unsafeGet...CacheUpdatePromise, run inside the lock: a fresh
\* cache resolves at once, a stale one asks the cache below, and the stale
\* corpus issues the first search of a fetch.
Check(r) ==
  LET q == requests[r]
      forCorpus == CurLock(q) = "fullIssueArrayCache"
  IN /\ Running(r) /\ q.state = "check"
     /\ IF ~Stale(r)
          THEN /\ requests' = [requests EXCEPT ![r] =
                    [q EXCEPT !.state = "resolved",
                              !.corpus = IF forCorpus THEN "reused" ELSE @]]
               /\ turn' = Later(r)
          ELSE IF forCorpus
            THEN /\ requests' = [requests EXCEPT ![r] =
                      [q EXCEPT !.state = "searching", !.startAt = 0,
                                !.extraIssues = <<>>, !.searches = @ + 1,
                                !.corpus = "fetching", !.returned = <<>>,
                                !.before = Some([cache |-> fullIssueArrayCache,
                                                 lastUpdateTime |->
                                                   fullIssueArrayCacheLastUpdateTime])]]
                 /\ turn' = Tail(turn)
            ELSE /\ requests' = [requests EXCEPT ![r] =
                      [q EXCEPT !.state = "acquire", !.depth = @ + 1]]
                 /\ UNCHANGED turn
     /\ UNCHANGED <<trackerVars, pc, replayVars, lockVars, corpusCacheVars,
                    eventLogCacheVars, velocityCache, cycleTimeCache>>

\* The instant of an issue's last edit (JQL's updatedDate).
Updated(issue) ==
  IF issue.histories = <<>> THEN issue.created
  ELSE issue.histories[Len(issue.histories)].created

\* The tracker lists the issues that exist, newest first: an issue exists
\* from the instant of its creation.
NewestFirst ==
  LET ids == SetToSeq({i \in IssueIds : jira[i].created <= clock})
      n == Len(ids)
  IN [k \in 1..n |-> jira[ids[n + 1 - k]]]

\* The issues the JQL of the fetch selects.  The bound of updatedDate is the
\* last update time formatted 'yyyy-mm-dd HH:MM': the seconds are dropped, so
\* an issue edited within the minute of the last update is selected again.
\* The instants of the model lie in different minutes.
Matching(lastUpdateTime) ==
  IF lastUpdateTime = None THEN NewestFirst
  ELSE SelectSeq(NewestFirst, LAMBDA issue : Updated(issue) >= lastUpdateTime[1])

Reverse(s) == [k \in DOMAIN s |-> s[Len(s) + 1 - k]]

\* The issue as a response carries it: the tracker lists the changelog
\* oldest entry first or newest entry first.
Delivered(issue, newestFirst) ==
  IF newestFirst THEN [issue EXCEPT !.histories = Reverse(@)] ELSE issue

\* gJira.search.search({jql, startAt, expand: ["changelog"]}): one page of
\* the current matches.
jiraRes(startAt, lastUpdateTime, newestFirst) ==
  LET m == Matching(lastUpdateTime)
      page == SubSeq(m, startAt + 1, Min(startAt + MaxResults, Len(m)))
  IN [total |-> Len(m), maxResults |-> MaxResults,
      issues |-> [k \in DOMAIN page |-> Delivered(page[k], newestFirst)]]

RECURSIVE BinarySearch(_, _, _, _)
\* The loop of binarySearchIssueIndex.  The ids are the decimal strings the
\* tracker delivers: === and < compare them as strings.
BinarySearch(issueList, id, min, max) ==
  IF min > max THEN -1
  ELSE LET guess == (min + max) \div 2
           guessed == NumToString(issueList[guess + 1].id)
       IN IF guessed = NumToString(id) THEN guess
          ELSE IF StringLess(guessed, NumToString(id))
                 THEN BinarySearch(issueList, id, guess + 1, max)
               ELSE BinarySearch(issueList, id, min, guess - 1)

\* The index (from 0) of the issue with the id, or -1.
binarySearchIssueIndex(issueList, id) ==
  BinarySearch(issueList, id, 0, Len(issueList) - 1)

\* A merge that stages the issues the cache does not hold and leaves the
\* cached entries as they are.
ApplyPageWithoutReplacing(cache, extra, issues) ==
  [cache |-> cache,
   extra |-> extra \o SelectSeq(issues, LAMBDA issue :
                        binarySearchIssueIndex(cache, issue.id) = -1)]

RECURSIVE ApplyPage(_, _, _)
\* The filter over a page: an issue the cache holds replaces its entry in
\* place, any other issue joins extraIssues.
ApplyPage(cache, extra, issues) ==
  IF issues = <<>> THEN [cache |-> cache, extra |-> extra]
  ELSE LET issue == Head(issues)
           cacheIndex == binarySearchIssueIndex(cache, issue.id)
       IN IF cacheIndex # -1
            THEN ApplyPage([cache EXCEPT ![cacheIndex + 1] = issue], extra,
                           Tail(issues))
          ELSE ApplyPage(cache, Append(extra, issue), Tail(issues))

IssueIdOf(issue) == issue.id

\* The callback of a search that succeeded: the page is merged, then either
\* the next page is asked for or the fetch ends with the extra issues pushed,
\* the cache sorted by id and the last update time set to the window's now.
\* No other request has a callback queued while the outcome of the last
\* page passes to the promise of the fetch.
SearchResponds(r, newestFirst) ==
  LET q == requests[r]
      res == jiraRes(q.startAt, fullIssueArrayCacheLastUpdateTime, newestFirst)
      merged == ApplyPage(fullIssueArrayCache, q.extraIssues, res.issues)
      onPage(issue) == \E k \in DOMAIN res.issues : res.issues[k].id = issue.id
      returned == SelectSeq(q.returned, LAMBDA issue : ~onPage(issue)) \o res.issues
  IN /\ ServerIdle /\ q.state = "searching"
     /\ IF q.startAt + res.maxResults < res.total
          THEN /\ fullIssueArrayCache' = merged.cache
               /\ requests' = [requests EXCEPT ![r] =
                    [q EXCEPT !.startAt = @ + res.maxResults,
                              !.extraIssues = merged.extra,
                              !.returned = returned,
                              !.searches = @ + 1]]
               /\ UNCHANGED <<fullIssueArrayCacheLastUpdateTime, turn>>
          ELSE /\ fullIssueArrayCache' =
                    IF merged.extra # <<>>
                      THEN SortByKey(merged.cache \o merged.extra, IssueIdOf)
                    ELSE merged.cache
               /\ fullIssueArrayCacheLastUpdateTime' = Some(q.window.now)
               /\ requests' = [requests EXCEPT ![r] =
                    [q EXCEPT !.state = "resolved", !.corpus = "fetched",
                              !.returned = returned,
                              !.extraIssues = <<>>, !.before = None]]
               /\ turn' = <<r>>
     /\ UNCHANGED <<trackerVars, pc, replayVars, lockVars, eventLogCacheVars,
                    velocityCache, cycleTimeCache>>

\* A search that failed: the promise of the fetch rejects.
SearchFails(r) ==
  /\ ServerIdle /\ requests[r].state = "searching"
  /\ requests' = [requests EXCEPT ![r] =
       [@ EXCEPT !.state = "rejected", !.corpus = "failed", !.extraIssues = <<>>]]
  /\ turn' = <<r>>
  /\ UNCHANGED <<trackerVars, pc, replayVars, lockVars, corpusCacheVars,
                 eventLogCacheVars, velocityCache, cycleTimeCache>>

\* 14 days in instants: an instant is two weeks long, except in the
\* specifications whose clock counts days or weeks.
TwoWeeks == 1

(***************************************************************************)
(* The release projection: the code that runs once the caches a 'Release   *)
(* Projection' target reads are up to date.  A series of the result is     *)
(* [target, datapoints], a data point <<value, timestamp>>.                *)
(***************************************************************************)
\* The series with its first value repeated at window.from, unless it
\* starts there.  The code reads [1] of dataPoints[0].
padStartToWindow(dataPoints, w) ==
  IF dataPoints = <<>> THEN "TypeError"
  ELSE IF dataPoints[1][2] # w.from
         THEN <<<<dataPoints[1][1], w.from>>>> \o dataPoints
       ELSE dataPoints

\* timeDiffFortnights * v + doneScopeNow as a number of fortnight-ths: the
\* quotient timeDiffFortnights is [num, den].
OverFortnight(doneScopeNow, timeDiffFortnights, v) ==
  Plus(Times(doneScopeNow, timeDiffFortnights.den), Times(timeDiffFortnights.num, v))

\* doneScopeNow + timeDiffFortnights * v.
ProjectedScope(doneScopeNow, timeDiffFortnights, v) ==
  Quotient(OverFortnight(doneScopeNow, timeDiffFortnights, v), timeDiffFortnights.den)

\* Math.max of the values of the two series and maxVScope, which is over
\* fortnight-ths of the fortnight den.
HighestPoint(scope, burnup, over, den) ==
  LET whole == MathMax({scope[k][1] : k \in DOMAIN scope}
                         \cup {burnup[k][1] : k \in DOMAIN burnup})
  IN IF whole = NaN \/ over = NaN THEN NaN
     ELSE IF over > whole * den THEN Quotient(over, den) ELSE whole

\* A projection one fortnight ahead of now, whatever the end of the window.
projectionOneFortnightAhead(q, vBounds, fortnight) ==
  LET w == q.window
      burnup == q.result[2].datapoints
      doneScopeNow == burnup[Len(burnup)][1]
      line(name, v) == [target |-> name,
                        datapoints |-> <<<<doneScopeNow, w.now>>,
                                         <<Plus(doneScopeNow, v), w.to>>>>]
  IN [q EXCEPT !.state = "answer", !.hops = 2,
               !.result = @ \o <<line("Max V projection", vBounds.max),
                                 line("Cur V projection", vBounds.cur),
                                 line("Min V projection", vBounds.min)>>]

\* The callback on the velocity bounds: the three projections of the burnup
\* from now to window.to, the projection of the scope and the two vertical
\* lines join the result.  The scope and burnup series are the first two
\* series of the result.  fortnight is 1000*60*60*24*14 in the instants of
\* the specification, and the quotient timeDiffFortnights is held exact.
\* The callback returns the result: the promise of
\* getBurnupProjectionFromCachePromise is fulfilled, then the promise of the
\* target, which has adopted it, and then Promise.all sees the target done.
getBurnupProjectionFromCachePromise(q, vBounds, fortnight) ==
    LET w == q.window
        scope == q.result[1].datapoints
        burnup == q.result[2].datapoints
        timeDiffFortnights == [num |-> w.to - w.now, den |-> fortnight]
        scopeNow == scope[Len(scope)][1]
        doneScopeNow == burnup[Len(burnup)][1]
        maxVScope == ProjectedScope(doneScopeNow, timeDiffFortnights, vBounds.max)
        curVScope == ProjectedScope(doneScopeNow, timeDiffFortnights, vBounds.cur)
        minVScope == ProjectedScope(doneScopeNow, timeDiffFortnights, vBounds.min)
        highestPoint ==
          HighestPoint(scope, burnup,
                       OverFortnight(doneScopeNow, timeDiffFortnights, vBounds.max),
                       fortnight)
        releaseDate == IF q.data.releaseDate = None THEN clock
                       ELSE q.data.releaseDate[1]
        line(name, from, to) == [target |-> name, datapoints |-> <<from, to>>]
    IN [q EXCEPT
          !.state = "answer", !.hops = 2,
          !.result = @ \o
            << line("Max V projection", <<doneScopeNow, w.now>>, <<maxVScope, w.to>>),
               line("Cur V projection", <<doneScopeNow, w.now>>, <<curVScope, w.to>>),
               line("Min V projection", <<doneScopeNow, w.now>>, <<minVScope, w.to>>),
               line("Scope projection", <<scopeNow, w.now>>, <<scopeNow, w.to>>),
               line("Now", <<0, w.now>>, <<highestPoint, w.now>>),
               line("Target", <<0, releaseDate>>, <<highestPoint, releaseDate>>) >>]

\* The callback on the updated velocity cache: the least, the greatest and
\* the last velocity of the window are the bounds of the projection, which
\* the callback of getBurnupProjectionFromCachePromise is handed in the next
\* callback.  The code reads [0] of velocities[0].
getVelocityBoundsFromHistoricDataPromise(q) ==
  LET velocities == SelectSeq(velocityCache[1].velocities,
                              LAMBDA value : value[2] >= q.window.from)
      values == {velocities[k][1] : k \in DOMAIN velocities}
  IN IF velocities = <<>> THEN [q EXCEPT !.state = "error"]
     ELSE [q EXCEPT !.state = "project",
                    !.bounds = Some([max |-> MathMax(values),
                                     cur |-> velocities[Len(velocities)][1],
                                     min |-> MathMin(values)])]

\* The series of the cache from window.from on.
InWindow(dataPoints, w) == SelectSeq(dataPoints, LAMBDA value : value[2] >= w.from)

\* The callback on the updated scope and burnup cache: the two series from
\* window.from on, each pushed to the result and then padded to the start of
\* the window, which throws for an empty series, and for a window that ends
\* in the future the projection, with the velocity bounds of the target
\* (Promise.resolve(getVelocityBounds(target)), whose callback is the next
\* of the queue) or else with those of the velocity cache, which is updated
\* first.  Without a projection the callback returns the result.
getReleaseProjectionPromise(q) ==
  LET w == q.window
      burnupCache == ScopeAndBurnupCacheEntry(TRUE, q.data.releaseId[1])
      filteredScope == InWindow(burnupCache[1].scopeData, w)
      filteredBurnup == InWindow(burnupCache[1].burnupData, w)
      series(name, dataPoints) == [target |-> name, datapoints |-> dataPoints]
      pushed == [q EXCEPT !.result = @ \o
                   <<series("Scope", padStartToWindow(filteredScope, w)),
                     series("Burnup", padStartToWindow(filteredBurnup, w))>>]
  IN IF burnupCache = None THEN [q EXCEPT !.state = "error"]
     ELSE IF filteredScope = <<>>
       THEN [q EXCEPT !.state = "error", !.result = Append(@, series("Scope", <<>>))]
     ELSE IF filteredBurnup = <<>>
       THEN [q EXCEPT !.state = "error",
                      !.result = @ \o <<series("Scope", padStartToWindow(filteredScope, w)),
                                        series("Burnup", <<>>)>>]
     ELSE IF w.to > w.now
       THEN IF q.data.vSource = "Explicit"
              THEN [pushed EXCEPT !.state = "project", !.bounds = Some(q.data.vBounds)]
            ELSE [pushed EXCEPT !.state = "acquire", !.kind = "limits"]
     ELSE [pushed EXCEPT !.state = "answer", !.hops = 1]

\* The callback of a 'Release Progress' target on Promise.all of the updated
\* scope and burnup cache and the version of the tracker: the share of the
\* scope that is done, in percent and held exact, at the last update time of
\* the cache, under the name of the version.  The code reads [0] of the last
\* point of each series.
getReleaseProgressPromise(q) ==
  LET cache == ScopeAndBurnupCacheEntry(TRUE, q.data.versionIds[1])
      done == cache[1].burnupData[Len(cache[1].burnupData)][1]
      scope == cache[1].scopeData[Len(cache[1].scopeData)][1]
      completePct == IF scope = 0 THEN 0 ELSE Quotient(Times(done, 100), scope)
  IN IF cache = None \/ cache[1].burnupData = <<>> \/ cache[1].scopeData = <<>>
       THEN [q EXCEPT !.state = "error"]
     ELSE [q EXCEPT !.state = "answer", !.hops = 1,
                    !.result = Append(@, [target |-> VersionName(q.data.versionIds[1]),
                                          datapoints |->
                                            <<<<completePct, cache[1].lastUpdateTime>>>>])]

\* The callback on the updated scope and burnup cache of the initiative: it
\* calls addBurnupProjectionFromCache, a name that no file of the repository
\* defines, so the callback throws a ReferenceError and the promise of the
\* target is rejected, whatever the window and the cache.
getInitiativeProjectionPromise(q) == [q EXCEPT !.state = "error"]

\* A release that frees the key and takes its oldest waiter off the queue
\* without running the waiter's function.
ReleaseWithoutHandOver(r) ==
  LET q == requests[r]
      key == CurLock(q)
      waiting == queues[key]
      ok == q.state = "resolved"
      after == IF q.depth = 1
                 THEN [q EXCEPT !.state = IF ok THEN "callback" ELSE "rejecting",
                                !.hops = 1, !.returned = <<>>]
               ELSE [q EXCEPT !.state = IF ok THEN "compute" ELSE "rejected",
                              !.hops = IF ok THEN 1 ELSE 2,
                              !.depth = @ - 1, !.returned = <<>>]
  IN /\ Running(r) /\ q.state \in {"resolved", "rejected"} /\ q.hops = 0
     /\ holder' = [holder EXCEPT ![key] = None]
     /\ queues' = [queues EXCEPT ![key] =
                     IF waiting = <<>> THEN <<>> ELSE Tail(waiting)]
     /\ requests' = [requests EXCEPT ![r] = after]
     /\ turn' = Later(r)
     /\ UNCHANGED <<trackerVars, pc, replayVars, corpusCacheVars,
                    eventLogCacheVars, velocityCache, cycleTimeCache>>

\* The promise of the function run inside the lock settles, and the
\* callback async-lock chained on it settles the promise of acquire and
\* starts the function of the oldest waiting request, which runs at once,
\* inside this callback.  The outcome reaches the caller of the cache update
\* through `.then((result) => result)`, one promise further: a value reaches
\* the computation of the enclosing cache, or the callback of the target,
\* in the callback after that one, and a rejection passes through the
\* promise of that computation as well.
Release(r) ==
  LET q == requests[r]
      key == CurLock(q)
      waiting == queues[key]
      ok == q.state = "resolved"
      after == IF q.depth = 1
                 THEN [q EXCEPT !.state = IF ok THEN "callback" ELSE "rejecting",
                                !.hops = 1, !.returned = <<>>]
               ELSE [q EXCEPT !.state = IF ok THEN "compute" ELSE "rejected",
                              !.hops = IF ok THEN 1 ELSE 2,
                              !.depth = @ - 1, !.returned = <<>>]
  IN /\ Running(r) /\ q.state \in {"resolved", "rejected"} /\ q.hops = 0
     /\ holder' = [holder EXCEPT ![key] =
                     IF waiting = <<>> THEN None ELSE Some(Head(waiting))]
     /\ queues' = [queues EXCEPT ![key] =
                     IF waiting = <<>> THEN <<>> ELSE Tail(waiting)]
     /\ requests' = IF waiting = <<>> THEN [requests EXCEPT ![r] = after]
                    ELSE [requests EXCEPT ![r] = after,
                                          ![Head(waiting)].state = "check"]
     /\ turn' = (IF waiting = <<>> THEN <<>> ELSE <<Head(waiting)>>) \o Later(r)
     /\ UNCHANGED <<trackerVars, pc, replayVars, corpusCacheVars,
                    eventLogCacheVars, velocityCache, cycleTimeCache>>

\* A promise on the way to the next code of the request settles: the promise
\* `.then((result) => result)` returns, or a promise a rejection passes
\* through.
Hop(r) ==
  /\ Running(r) /\ requests[r].hops > 0
  /\ requests' = [requests EXCEPT ![r].hops = @ - 1]
  /\ turn' = Later(r)
  /\ UNCHANGED <<trackerVars, pc, replayVars, lockVars, corpusCacheVars,
                 eventLogCacheVars, velocityCache, cycleTimeCache>>

\* The last value pushed to a series, repeated at window.to unless the
\* series ends there.  The code reads [1] of dataPoints[length - 1].
padEndToWindow(dataPoints, w) ==
  IF dataPoints = <<>> THEN "TypeError"
  ELSE IF dataPoints[Len(dataPoints)][2] # w.to
         THEN Append(dataPoints, <<dataPoints[Len(dataPoints)][1], w.to>>)
       ELSE dataPoints

\* The callback of a 'Current ...' target: the last point of the cached
\* series, or undefined (None) for an empty series, is the one data point.
\* The series is pushed under the target object of the query, its name and
\* its data.
CurrentPoint(q, target, series) ==
  [q EXCEPT !.state = "answer", !.hops = 1,
            !.result = Append(@, [target |-> [target |-> target, data |-> q.data],
                                  datapoints |-> <<IF series = <<>> THEN None
                                                   ELSE series[Len(series)]>>])]

\* The callback of a 'Rolling ...' target: the points of the cached series
\* from window.from on, padded to the end of the window.
RollingSeries(q, target, series) ==
  LET inWindow == SelectSeq(series, LAMBDA value : value[2] >= q.window.from)
  IN IF inWindow = <<>> THEN [q EXCEPT !.state = "error"]
     ELSE [q EXCEPT !.state = "answer", !.hops = 1,
                    !.result = Append(@, [target |-> [target |-> target, data |-> q.data],
                                          datapoints |->
                                            padEndToWindow(inWindow, q.window)])]

getCurrent2WeekVelocityPromise(q) ==
  CurrentPoint(q, "Current 2 week velocity", velocityCache[1].velocities)

getRolling2WeekVelocityPromise(q) ==
  RollingSeries(q, "Rolling 2 week velocity", velocityCache[1].velocities)

getCurrent2WeekAverageCycleTimePerPointPromise(q) ==
  CurrentPoint(q, "Current 2 week average cycle time per point",
               cycleTimeCache[1].cycleTimes)

getRolling2WeekAverageCycleTimePerPointPromise(q) ==
  RollingSeries(q, "Rolling 2 week average cycle time per point",
                cycleTimeCache[1].cycleTimes)

\* The callback a target chained on the update of its cache: it reads the
\* cache and pushes its series to the result, or it throws; a rejected update
\* passes through its promise.  The value it returns fulfils the promise of
\* the target, which Promise.all sees in the callback after this one.  A
\* 'Release Projection' that needs the velocity bounds of the cache enters
\* getVelocityCacheUpdatePromise within this callback.  The callback of a
\* 'Release Progress' target is chained on Promise.all, which waits for the
\* version of the tracker as well and is rejected when the tracker fails.
TargetCallback(r) ==
  LET q == requests[r]
      after ==
        IF q.state = "rejecting" THEN [q EXCEPT !.state = "error"]
        ELSE CASE q.kind = "release" -> getReleaseProjectionPromise(q)
               [] q.kind = "progress" ->
                    CASE q.version = "asked" -> [q EXCEPT !.state = "awaitVersion"]
                      [] q.version = "failed" -> [q EXCEPT !.state = "error"]
                      [] OTHER -> getReleaseProgressPromise(q)
               [] q.kind = "limits" -> getVelocityBoundsFromHistoricDataPromise(q)
               [] q.kind = "initiative" -> getInitiativeProjectionPromise(q)
               [] q.kind = "velocity" -> getCurrent2WeekVelocityPromise(q)
               [] q.kind = "rollingVelocity" -> getRolling2WeekVelocityPromise(q)
               [] q.kind = "cycleTime" ->
                    getCurrent2WeekAverageCycleTimePerPointPromise(q)
               [] q.kind = "rollingCycleTime" ->
                    getRolling2WeekAverageCycleTimePerPointPromise(q)
  IN /\ Running(r) /\ q.state \in {"callback", "rejecting"} /\ q.hops = 0
     /\ requests' = [requests EXCEPT ![r] = after]
     /\ turn' = CASE after.state = "acquire" -> turn
                  [] after.state \in {"error", "awaitVersion"} -> Tail(turn)
                  [] OTHER -> Later(r)
     /\ UNCHANGED <<trackerVars, pc, replayVars, lockVars, corpusCacheVars,
                    eventLogCacheVars, velocityCache, cycleTimeCache>>

\* The callback getBurnupProjectionFromCachePromise chained on the velocity
\* bounds, with 14 days as long as fortnight instants.
ProjectionCallbackWithin(r, fortnight) ==
  LET q == requests[r]
  IN /\ Running(r) /\ q.state = "project"
     /\ requests' = [requests EXCEPT ![r] =
                       getBurnupProjectionFromCachePromise(q, q.bounds[1], fortnight)]
     /\ turn' = Later(r)
     /\ UNCHANGED <<trackerVars, pc, replayVars, lockVars, corpusCacheVars,
                    eventLogCacheVars, velocityCache, cycleTimeCache>>

ProjectionCallback(r) == ProjectionCallbackWithin(r, TwoWeeks)

\* gJira.version.getVersion of a 'Release Progress' target answers: its
\* callback keeps the name of the version, and when the cache update has
\* settled before it, Promise.all is fulfilled.
VersionResponds(r) ==
  LET q == requests[r]
      named == [q EXCEPT !.version = "named"]
  IN /\ ServerIdle /\ q.version = "asked"
     /\ IF q.state = "awaitVersion"
          THEN /\ requests' = [requests EXCEPT ![r] =
                                 [named EXCEPT !.state = "callback", !.hops = 1]]
               /\ turn' = <<r>>
          ELSE /\ requests' = [requests EXCEPT ![r] = named]
               /\ UNCHANGED turn
     /\ UNCHANGED <<trackerVars, pc, replayVars, lockVars, corpusCacheVars,
                    eventLogCacheVars, velocityCache, cycleTimeCache>>

\* The request for the version fails: Promise.all is rejected and the
\* callback of the target never runs.
VersionFails(r) ==
  LET q == requests[r]
  IN /\ ServerIdle /\ q.version = "asked"
     /\ requests' = [requests EXCEPT ![r] =
                       [q EXCEPT !.version = "failed",
                                 !.state = IF @ = "awaitVersion" THEN "error" ELSE @]]
     /\ UNCHANGED <<trackerVars, pc, replayVars, lockVars, turn, corpusCacheVars,
                    eventLogCacheVars, velocityCache, cycleTimeCache>>

\* The callback of the /query route on Promise.all of the promises of the
\* targets: httpRes.json(result).  The route chains only a fulfilment
\* handler, so a rejection reaches no handler of the route and the query
\* stays unanswered.
Answer(r) ==
  /\ Running(r) /\ requests[r].state = "answer" /\ requests[r].hops = 0
  /\ requests' = [requests EXCEPT ![r].state = "done", ![r].response = "json"]
  /\ turn' = Tail(turn)
  /\ UNCHANGED <<trackerVars, pc, replayVars, lockVars, corpusCacheVars,
                 eventLogCacheVars, velocityCache, cycleTimeCache>>

Computing(r, key) ==
  /\ Running(r) /\ requests[r].state = "compute" /\ requests[r].hops = 0
  /\ CurLock(requests[r]) = key

\* calculateFullEventLog sorts the changelog of every issue it is handed in
\* place, and it is handed the array of the corpus cache itself.
SortHistories(issues) ==
  [k \in DOMAIN issues |->
     [issues[k] EXCEPT !.histories = SortByKey(@, HistoryId)]]

\* unsafeGetFullEventLogCacheUpdatePromise after the corpus resolved.
ComputeEventLog(r) ==
  /\ Computing(r, "fullEventLogCache")
  /\ fullEventLogCache' = calculateFullEventLog(fullIssueArrayCache)
  /\ fullIssueArrayCache' = SortHistories(fullIssueArrayCache)
  /\ fullEventLogCacheLastUpdateTime' = fullIssueArrayCacheLastUpdateTime
  /\ requests' = [requests EXCEPT ![r].state = "resolved"]
  /\ turn' = Later(r)
  /\ UNCHANGED <<trackerVars, pc, replayVars, lockVars,
                 fullIssueArrayCacheLastUpdateTime, velocityCache, cycleTimeCache>>

(***************************************************************************)
(* The velocity engine.  An instant of the model is two weeks long, so     *)
(* the 14 days of the rolling window are one instant.                      *)
(***************************************************************************)

\* The array starts with toStatus and continues with the statuses listed
\* after it; completionOnly drops the cancelled statuses.
getFutureStatusesFromStartingStatus(toStatus, completionOnly) ==
  LET CANCELLED_STATUSES == {"Not Doing"}
      RECURSIVE After(_, _)
      After(k, gotIt) ==
        IF k > Len(STATUSES) THEN <<>>
        ELSE IF gotIt THEN <<STATUSES[k]>> \o After(k + 1, TRUE)
             ELSE After(k + 1, STATUSES[k] = toStatus)
      futureStatuses == <<toStatus>> \o After(1, FALSE)
  IN IF completionOnly
       THEN SelectSeq(futureStatuses, LAMBDA v : v \notin CANCELLED_STATUSES)
     ELSE futureStatuses

\* The object keyed by issue key, as the sequence of its entries in the
\* order for..in visits them: a key keeps the place of its first
\* assignment and the value of its last.  Each entry holds the issue and
\* its status changes, sorted by datetime.
getStatusChangesByIssueKeyMap(issues) ==
  LET RECURSIVE Changes(_, _)
      Changes(issue, h) ==
        IF h > Len(issue.histories) THEN <<>>
        ELSE LET history == issue.histories[h]
                 items == SelectSeq(history.items,
                                    LAMBDA item : item.field = "status")
             IN [j \in DOMAIN items |->
                   [fromStatus |-> items[j].fromString[1],
                    toStatus |-> items[j].toString[1],
                    datetime |-> history.created]]
                \o Changes(issue, h + 1)
      first(k) == \A j \in 1..(k - 1) : issues[j].key # issues[k].key
      last(k) == CHOOSE j \in DOMAIN issues :
                   /\ issues[j].key = issues[k].key
                   /\ \A m \in DOMAIN issues :
                        issues[m].key = issues[k].key => m <= j
      keys == SelectSeq([k \in DOMAIN issues |-> k], first)
  IN [n \in DOMAIN keys |->
        LET issue == issues[last(keys[n])]
        IN [key |-> issue.key, issue |-> issue,
            statusChanges |->
              SortByKey(Changes(issue, 1), LAMBDA c : c.datetime)]]

\* A list of events that leaves the regressions out whatever is asked.
getCompletionsOnly(statusChangeMap, toStatuses, completionOnly) ==
  LET includes(v) == \E k \in DOMAIN toStatuses : toStatuses[k] = v
      RECURSIVE All(_)
      All(n) ==
        IF n > Len(statusChangeMap) THEN <<>>
        ELSE LET pushed == SelectSeq(statusChangeMap[n].statusChanges,
                             LAMBDA c : includes(c.toStatus) /\ ~includes(c.fromStatus))
             IN [k \in DOMAIN pushed |->
                   [completionTransitionDateTime |-> pushed[k].datetime,
                    transitionType |-> "completion",
                    issue |-> statusChangeMap[n].issue]]
                \o All(n + 1)
  IN All(1)

\* The transitions into the completion statuses from outside them, and,
\* unless completionOnly, the transitions out of them, entry by entry.
getCompletionEvents(statusChangeMap, toStatuses, completionOnly) ==
  LET includes(v) == \E k \in DOMAIN toStatuses : toStatuses[k] = v
      typeOf(c) ==
        IF includes(c.toStatus) /\ ~includes(c.fromStatus) THEN "completion"
        ELSE IF ~completionOnly /\ includes(c.fromStatus) /\ ~includes(c.toStatus)
               THEN "regression"
             ELSE "none"
      RECURSIVE All(_)
      All(n) ==
        IF n > Len(statusChangeMap) THEN <<>>
        ELSE LET pushed == SelectSeq(statusChangeMap[n].statusChanges,
                                     LAMBDA c : typeOf(c) # "none")
             IN [k \in DOMAIN pushed |->
                   [completionTransitionDateTime |-> pushed[k].datetime,
                    transitionType |-> typeOf(pushed[k]),
                    issue |-> statusChangeMap[n].issue]]
                \o All(n + 1)
  IN All(1)

\* The stories and bugs of the corpus, of the project when one is asked for.
filteredIssueArray(fullIssuesArray, projectKey) ==
  SelectSeq(fullIssuesArray, LAMBDA issue :
    /\ issue.issuetype # "Initiative" /\ issue.issuetype # "Epic"
    /\ projectKey # None => issue.project = projectKey[1])

\* The loop of unsafeGetVelocityCacheUpdatePromise: one pass over the sample
\* instants from window.from, with the index into the sorted events carried
\* from one instant to the next.  A point is <<value, timestamp>>.  The 14
\* days of setDate(getDate() - 14) are `fortnight` instants.
velocitiesWithin(fullIssuesArray, w, futureStatuses, projectKey, fortnight) ==
  LET sortedCompletionEvents ==
        SortByKey(getCompletionEvents(
                    getStatusChangesByIssueKeyMap(
                      filteredIssueArray(fullIssuesArray, projectKey)),
                    futureStatuses, FALSE),
                  LAMBDA e : e.completionTransitionDateTime)
      length == Len(sortedCompletionEvents)
      calcEndDatetime == IF w.to > w.now THEN w.now ELSE w.to
      \* the index at which the inner for breaks
      RECURSIVE Advance(_, _)
      Advance(completedIssueIndex, curDateTime) ==
        IF completedIssueIndex = length THEN completedIssueIndex
        ELSE IF sortedCompletionEvents[completedIssueIndex + 1]
                  .completionTransitionDateTime > curDateTime
               THEN completedIssueIndex
             ELSE Advance(completedIssueIndex + 1, curDateTime)
      \* the sum over the events before the index, newest first, up to the
      \* first one older than two weeks
      RECURSIVE Velocity(_, _)
      Velocity(issueIndex, twoweeksago) ==
        IF issueIndex < 0 THEN 0
        ELSE LET priorCompletionEvent == sortedCompletionEvents[issueIndex + 1]
                 deltaV == getIssueSize(priorCompletionEvent.issue)
             IN IF priorCompletionEvent.completionTransitionDateTime < twoweeksago
                  THEN 0
                ELSE (IF priorCompletionEvent.transitionType = "regression"
                        THEN deltaV * (-1) ELSE deltaV)
                     + Velocity(issueIndex - 1, twoweeksago)
      RECURSIVE Loop(_, _)
      Loop(curDateTime, completedIssueIndex) ==
        IF curDateTime > calcEndDatetime THEN <<>>
        ELSE LET at == Advance(completedIssueIndex, curDateTime)
             IN <<<<Velocity(at - 1, curDateTime - fortnight), curDateTime>>>>
                \o Loop(curDateTime + w.intervalMs, at)
  IN Loop(w.from, 0)

\* The series of the server's clock, whose instant is two weeks.
velocities(fullIssuesArray, w, futureStatuses, projectKey) ==
  velocitiesWithin(fullIssuesArray, w, futureStatuses, projectKey, TwoWeeks)

\* unsafeGetVelocityCacheUpdatePromise after the corpus resolved: the series
\* is computed from the cached corpus for the completion statuses of the
\* target, with two weeks of `fortnight` instants.
ComputeVelocityWithin(r, fortnight) ==
  /\ Computing(r, "velocityCache")
  /\ velocityCache' =
       Some([window |-> requests[r].window,
             futureStatuses |-> StatusArrays(r),
             velocities |->
               velocitiesWithin(fullIssueArrayCache, requests[r].window,
                                getFutureStatusesFromStartingStatus(
                                  requests[r].data.toStatus, TRUE),
                                requests[r].data.projectKey, fortnight),
             projectKey |-> requests[r].data.projectKey])
  /\ requests' = [requests EXCEPT ![r].state = "resolved"]
  /\ turn' = Later(r)
  /\ UNCHANGED <<trackerVars, pc, replayVars, lockVars, corpusCacheVars,
                 eventLogCacheVars, cycleTimeCache>>

\* The update of a server whose instant is two weeks.
ComputeVelocity(r) == ComputeVelocityWithin(r, TwoWeeks)

(***************************************************************************)
(* The cycle-time engine.  A quotient of the code is held exact, as        *)
(* [num, den]: 0/0 is NaN, and a non-zero numerator over 0 an infinity.    *)
(***************************************************************************)
\* The statuses listed up to and including endStatus.
getPreviousStatusesFromStartingStatus(endStatus) ==
  LET RECURSIVE Before(_)
      Before(k) ==
        IF k > Len(STATUSES) THEN <<>>
        ELSE IF STATUSES[k] = endStatus THEN <<STATUSES[k]>>
             ELSE <<STATUSES[k]>> \o Before(k + 1)
  IN Before(1)

\* The days from the first transition out of the from statuses, or else
\* from the first status change, to the last transition into the to
\* statuses at or before toDateTime, or else to the last status change.
\* Without any status change the code reads .datetime of undefined.
calculateCycleTime(statusChanges, fromStatuses, toStatuses, toDateTime) ==
  LET inFrom(v) == \E k \in DOMAIN fromStatuses : fromStatuses[k] = v
      inTo(v) == \E k \in DOMAIN toStatuses : toStatuses[k] = v
      starts == {i \in DOMAIN statusChanges :
                   /\ inFrom(statusChanges[i].fromStatus)
                   /\ ~inFrom(statusChanges[i].toStatus)}
      stops == {i \in DOMAIN statusChanges :
                  /\ statusChanges[i].datetime <= toDateTime
                  /\ inTo(statusChanges[i].toStatus)
                  /\ ~inTo(statusChanges[i].fromStatus)}
      firstTimeForFirstStatus ==
        IF starts # {}
          THEN statusChanges[CHOOSE i \in starts : \A j \in starts : i <= j].datetime
        ELSE statusChanges[1].datetime
      lastTimeForLastStatus ==
        IF stops # {}
          THEN statusChanges[CHOOSE i \in stops : \A j \in stops : i >= j].datetime
        ELSE statusChanges[Len(statusChanges)].datetime
  IN IF statusChanges = <<>> THEN "TypeError"
     ELSE (lastTimeForLastStatus - firstTimeForFirstStatus) * 14

\* An average that divides by the number of all the issues.
averageOverAllIssues(statusChangeMap, fromStatuses, toStatuses, toDateTime) ==
  LET RECURSIVE Total(_)
      Total(n) ==
        IF n > Len(statusChangeMap) THEN [num |-> 0, den |-> 1]
        ELSE LET rest == Total(n + 1)
                 cycleTime == calculateCycleTime(statusChangeMap[n].statusChanges,
                                fromStatuses, toStatuses, toDateTime)
                 size == getIssueSize(statusChangeMap[n].issue)
             IN IF size = 0 THEN rest
                ELSE [num |-> rest.num * size + cycleTime * rest.den,
                      den |-> rest.den * size]
  IN IF \E n \in DOMAIN statusChangeMap : statusChangeMap[n].statusChanges = <<>>
       THEN "TypeError"
     ELSE [num |-> Total(1).num, den |-> Total(1).den * Len(statusChangeMap)]

\* The sum of cycleTime / size over the entries whose size is not 0,
\* divided by the number of those entries.  calculateCycleTime is called
\* for every entry, before its size is looked at: an entry without any
\* status change makes it throw, whatever the size.
calculateAverageCycleTimePerPointForIssues(statusChangeMap, fromStatuses, toStatuses, toDateTime) ==
  LET RECURSIVE Total(_)
      Total(n) ==
        IF n > Len(statusChangeMap)
          THEN [num |-> 0, den |-> 1, ignoreIssues |-> 0]
        ELSE LET rest == Total(n + 1)
                 cycleTime == calculateCycleTime(statusChangeMap[n].statusChanges,
                                fromStatuses, toStatuses, toDateTime)
                 size == getIssueSize(statusChangeMap[n].issue)
             IN IF size = 0 THEN [rest EXCEPT !.ignoreIssues = @ + 1]
                ELSE [rest EXCEPT !.num = rest.num * size + cycleTime * rest.den,
                                  !.den = rest.den * size]
      total == Total(1)
  IN IF \E n \in DOMAIN statusChangeMap : statusChangeMap[n].statusChanges = <<>>
       THEN "TypeError"
     ELSE [num |-> total.num,
           den |-> total.den * (Len(statusChangeMap) - total.ignoreIssues)]

\* The loop of unsafeGetCycleTimeCacheUpdatePromise: for each sample instant
\* the inner loop looks, from the carried index, for an event later than the
\* instant; when there is one, the issues completed in the two weeks before
\* the instant are averaged and a point <<value, timestamp>> is pushed; when
\* the index reaches the end of the events the instant gets no point.
cycleTimes(fullIssuesArray, w, fromStatuses, futureStatuses, projectKey) ==
  LET statusChangesByIssueKeyMap ==
        getStatusChangesByIssueKeyMap(filteredIssueArray(fullIssuesArray, projectKey))
      sortedCompletionEvents ==
        SortByKey(getCompletionEvents(statusChangesByIssueKeyMap, futureStatuses, TRUE),
                  LAMBDA e : e.completionTransitionDateTime)
      length == Len(sortedCompletionEvents)
      calcEndDatetime == IF w.to > w.now THEN w.now ELSE w.to
      RECURSIVE Advance(_, _)
      Advance(completedIssueIndex, curDateTime) ==
        IF completedIssueIndex >= length THEN length
        ELSE IF sortedCompletionEvents[completedIssueIndex + 1]
                  .completionTransitionDateTime > curDateTime
               THEN completedIssueIndex
             ELSE Advance(completedIssueIndex + 1, curDateTime)
      RECURSIVE twoWeekCompletedIssueList(_, _)
      twoWeekCompletedIssueList(issueIndex, twoweeksago) ==
        IF issueIndex < 0 THEN {}
        ELSE LET priorCompletionEvent == sortedCompletionEvents[issueIndex + 1]
             IN IF priorCompletionEvent.completionTransitionDateTime < twoweeksago
                  THEN {}
                ELSE {priorCompletionEvent.issue.key}
                       \cup twoWeekCompletedIssueList(issueIndex - 1, twoweeksago)
      point(at, curDateTime) ==
        LET list == twoWeekCompletedIssueList(at - 1, curDateTime - TwoWeeks)
            filteredStatusChangeMap ==
              SelectSeq(statusChangesByIssueKeyMap, LAMBDA e : e.key \in list)
        IN <<calculateAverageCycleTimePerPointForIssues(
               filteredStatusChangeMap, fromStatuses, futureStatuses, curDateTime),
             curDateTime>>
      RECURSIVE Loop(_, _)
      Loop(curDateTime, completedIssueIndex) ==
        IF curDateTime > calcEndDatetime THEN <<>>
        ELSE LET at == Advance(completedIssueIndex, curDateTime)
             IN (IF at < length THEN <<point(at, curDateTime)>> ELSE <<>>)
                \o Loop(curDateTime + w.intervalMs, at)
  IN Loop(w.from, 0)

\* unsafeGetCycleTimeCacheUpdatePromise after the corpus resolved.
ComputeCycleTime(r) ==
  LET w == requests[r].window
  IN /\ Computing(r, "cycleTimeCache")
     /\ cycleTimeCache' = Some([cycleTimes |->
                                  cycleTimes(fullIssueArrayCache, w,
                                    getPreviousStatusesFromStartingStatus(
                                      requests[r].data.fromStatus),
                                    getFutureStatusesFromStartingStatus(
                                      requests[r].data.toStatus, FALSE),
                                    requests[r].data.projectKey),
                                fromStatuses |-> StatusArrays(r),
                                futureStatuses |-> StatusArrays(r),
                                lastUpdateTime |->
                                  IF w.now >= w.to THEN w.to ELSE w.now])
     /\ requests' = [requests EXCEPT ![r].state = "resolved"]
     /\ turn' = Later(r)
     /\ UNCHANGED <<trackerVars, pc, replayVars, lockVars, corpusCacheVars,
                    eventLogCacheVars, velocityCache>>

\* unsafeGetScopeAndBurnupCacheUpdatePromise after the event log resolved:
\* calculateScopeAndBurnupTimeseries replays the cached log for the
\* initiative, the release or the version of the target.
ComputeScope(r) ==
  /\ Computing(r, "scopeAndBurnupCache")
  /\ BeginReplay(requests[r].window, TargetId(requests[r]), ForRelease(requests[r]),
                 fullEventLogCache)
  /\ requests' = [requests EXCEPT ![r].state = "replaying"]
  /\ UNCHANGED <<lockVars, turn, corpusCacheVars, eventLogCacheVars,
                 velocityCache, cycleTimeCache>>

\* The replay returned, or threw and so rejected the promise.
ReplayReturns(r) ==
  /\ Running(r) /\ requests[r].state = "replaying"
  /\ pc \in {"done", "threw"}
  /\ pc' = "tracker"
  /\ requests' = [requests EXCEPT ![r].state =
                    IF pc = "done" THEN "resolved" ELSE "rejected"]
  /\ turn' = Later(r)
  /\ UNCHANGED <<trackerVars, replayVars, lockVars, corpusCacheVars,
                 eventLogCacheVars, velocityCache, cycleTimeCache>>

(***************************************************************************)
(* Specification of the log builder and the replay: the tracker history    *)
(* grows, then calculateScopeAndBurnupTimeseries replays the event log     *)
(* calculateFullEventLog builds from the issues of the tracker.            *)
(***************************************************************************)
InitReplayIdle ==
  /\ pc = "tracker"
  /\ window = [now |-> 0, to |-> 0]
  /\ targetId = InitiativeId
  /\ isRelease = FALSE
  /\ eventLog = <<>>
  /\ eventIndex = 1
  /\ issuesAtTime = <<>>
  /\ detached = <<>>
  /\ keyToIdMap = <<>>
  /\ versionIssueMap = [v \in VersionIds |-> <<>>]
  /\ totalSize = 0 /\ previousTotalSize = None
  /\ totalDoneSize = 0 /\ previousTotalDoneSize = None
  /\ scopeData = <<>> /\ burnupData = <<>>
  /\ gReleaseScopeAndBurnupDataCache = <<>>
  /\ gInitiativeScopeAndBurnupDataCache = <<>>

\* The caches of a server that starts without cache files.
InitCacheIdle ==
  /\ requests = [r \in Reqs |-> NoRequest]
  /\ holder = [k \in LockKeys |-> None]
  /\ queues = [k \in LockKeys |-> <<>>]
  /\ turn = <<>>
  /\ fullIssueArrayCache = <<>>
  /\ fullIssueArrayCacheLastUpdateTime = None
  /\ fullEventLogCache = <<>>
  /\ fullEventLogCacheLastUpdateTime = None
  /\ velocityCache = None
  /\ cycleTimeCache = None

\* The issues as created at instant 0: the epic with parent link p, the story
\* and the bug with epic links es and eb, the epic and the story with fix
\* versions ve and vs.
InitTracker(P, ES, EB, VE, VS) ==
  /\ \E p \in P, es \in ES, eb \in EB, ve \in VE, vs \in VS :
       jira = [i \in IssueIds |->
                 CASE i = InitiativeId -> NewIssue(i, None, None, <<>>, None)
                   [] i = EpicId -> NewIssue(i, p, None, ve, None)
                   [] i = StoryId -> NewIssue(i, None, es, vs, Some(2))
                   [] OTHER -> NewIssue(i, None, eb, <<>>, Some(3))]
  /\ clock = 0
  /\ nextHistoryId = 1
  /\ ops = 0

InInitiative == {None, Some(LinkData(InitiativeId))}
InEpic == {None, Some(IssueKey(EpicId))}
InRelease == {<<>>, <<ReleaseId>>}

\* Replays for the initiative.
Init ==
  /\ InitTracker(InInitiative, InEpic, {None}, {<<>>}, {<<>>})
  /\ InitReplayIdle
  /\ InitCacheIdle

TrackerStep ==
  \/ Tick
  \/ \E s \in LeafIds, e \in {None, Some(EpicId)} : JiraSetEpicLink(s, e)
  \/ \E p \in {None, Some(InitiativeId)} : JiraSetParentLink(EpicId, p)
  \/ \E n \in {None, Some(5)}, empty \in {AsNull, AsEmptyString} :
       JiraSetStoryPoints(StoryId, n, empty)
  \/ JiraAddFixVersion(StoryId, ReleaseId)
  \/ \E i \in {EpicId, StoryId}, r \in Resolutions : JiraSetResolution(i, r)
  \/ JiraSetStatus(StoryId, "Dev")

Next ==
  \/ TrackerStep
  \/ \E w \in Windows : StartReplay(w, InitiativeId, FALSE)
  \/ ReplayAgain
  \/ ReplayCreated
  \/ ReplayParentChange
  \/ ReplaySizeChange
  \/ ReplayAddChild
  \/ ReplayRemoveChild
  \/ ReplayResolutionChange
  \/ ReplaySkipVersionChange
  \/ ReplayThrows
  \/ ReplayFinish

Spec == Init /\ [][Next]_vars

\* Replays for the release.
InitRelease ==
  /\ InitTracker({None}, InEpic, {None}, InRelease, InRelease)
  /\ InitReplayIdle
  /\ InitCacheIdle

TrackerStepRelease ==
  \/ Tick
  \/ \E e \in {None, Some(EpicId)} : JiraSetEpicLink(StoryId, e)
  \/ \E i \in {EpicId, StoryId}, n \in {None, Some(5)}, empty \in {AsNull, AsEmptyString} :
       JiraSetStoryPoints(i, n, empty)
  \/ \E i \in {EpicId, StoryId} : JiraAddFixVersion(i, ReleaseId)
  \/ \E i \in {EpicId, StoryId} : JiraRemoveFixVersion(i, ReleaseId)
  \/ \E i \in {EpicId, StoryId}, r \in Resolutions : JiraSetResolution(i, r)

NextRelease ==
  \/ TrackerStepRelease
  \/ \E w \in Windows : StartReplay(w, ReleaseId, TRUE)
  \/ ReplayAgain
  \/ ReplayCreated
  \/ ReplayParentChange
  \/ ReplaySizeChange
  \/ ReplayAddChild
  \/ ReplayRemoveChild
  \/ ReplayResolutionChange
  \/ ReplayVersionChange
  \/ ReplayThrows
  \/ ReplayFinish

SpecRelease == InitRelease /\ [][NextRelease]_vars

(***************************************************************************)
(* Specification of the replay of a given log.  calculateScopeAndBurnup-   *)
(* Timeseries is handed the log of the issues as created, followed by      *)
(* events of a later instant that need not agree with the snapshots they   *)
(* meet: version events in any order, and child events that name an issue  *)
(* the tracker deleted, which the corpus no longer holds.                  *)
(***************************************************************************)
DeletedId == Ids.bug + 1

LaterEvents ==
  {Event(1, StoryId, "addVersion", [NoDetails EXCEPT !.versionId = Some(ReleaseId)]),
   Event(1, StoryId, "removeVersion", [NoDetails EXCEPT !.versionId = Some(ReleaseId)]),
   Event(1, EpicId, "addChild", [NoDetails EXCEPT !.childId = Some(DeletedId)]),
   Event(1, EpicId, "removeChild", [NoDetails EXCEPT !.childId = Some(DeletedId)]),
   Event(1, StoryId, "resolutionChange", [NoDetails EXCEPT !.resolution = Some("Done")])}

MaxLaterEvents == 3

GivenLogs ==
  UNION {[1..n -> LaterEvents] : n \in 0..MaxLaterEvents}

InitGivenLog ==
  /\ InitTracker({None}, InEpic, {None}, {<<>>}, InRelease)
  /\ InitReplayIdle
  /\ InitCacheIdle

\* calculateScopeAndBurnupTimeseries(window, eventLog, targetId, true)
ReplayGivenLog(later) ==
  /\ turn = <<>>
  /\ BeginReplay([now |-> MaxTime, to |-> MaxTime], ReleaseId, TRUE,
                 calculateFullEventLog(Corpus) \o later)
  /\ UNCHANGED cacheVars

NextGivenLog ==
  \/ \E later \in GivenLogs : ReplayGivenLog(later)
  \/ ReplayCreated
  \/ ReplayAddChild
  \/ ReplayRemoveChild
  \/ ReplayResolutionChange
  \/ ReplayVersionChange
  \/ ReplayFinish

SpecGivenLog == InitGivenLog /\ [][NextGivenLog]_vars

(***************************************************************************)
(* Specification of the cache coordinator: queries arrive while the        *)
(* tracker is edited, and their chains refresh the caches under the locks. *)
(***************************************************************************)
InitCache ==
  /\ InitTracker({Some(LinkData(InitiativeId))}, {Some(IssueKey(EpicId))}, {None},
                 {<<>>}, {<<>>})
  /\ InitReplayIdle
  /\ InitCacheIdle

\* The tracker of this specification writes the empty value as the empty
\* string.
TrackerStepCache ==
  \/ Tick
  \/ \E n \in {None, Some(5)} : JiraSetStoryPoints(StoryId, n, AsEmptyString)

\* The upper bounds of the windows asked for: a past instant and a future one.
WindowEnds == {1, MaxTime + 1}

NextCache ==
  \/ TrackerStepCache
  \/ \E r \in Reqs, kind \in Kinds, to \in WindowEnds :
       Arrive(r, kind, 0, to, 1, PanelData)
  \/ \E r \in Reqs : Acquire(r)
  \/ \E r \in Reqs : Check(r)
  \/ \E r \in Reqs, newestFirst \in BOOLEAN : SearchResponds(r, newestFirst)
  \/ \E r \in Reqs : SearchFails(r)
  \/ \E r \in Reqs : Release(r)
  \/ \E r \in Reqs : Hop(r)
  \/ \E r \in Reqs : TargetCallback(r)
  \/ \E r \in Reqs : Answer(r)
  \/ \E r \in Reqs : ComputeEventLog(r)
  \/ \E r \in Reqs : ComputeVelocity(r)
  \/ \E r \in Reqs : ComputeCycleTime(r)
  \/ \E r \in Reqs : ComputeScope(r)
  \/ \E r \in Reqs : ReplayReturns(r)
  \/ ReplayCreated
  \/ ReplaySizeChange
  \/ ReplayThrows
  \/ ReplayFinish

SpecCache == InitCache /\ [][NextCache]_vars

(***************************************************************************)
(* Specification of the cache coordinator of a server that starts with     *)
(* the cache files an earlier run wrote at instant 0: init() reads the     *)
(* corpus, the event log and their update times back.  Queries ask for     *)
(* windows that end at instant 0 or in the future.                         *)
(***************************************************************************)
InitRestart ==
  /\ InitTracker({Some(LinkData(InitiativeId))}, {Some(IssueKey(EpicId))}, {None},
                 {<<>>}, {<<>>})
  /\ InitReplayIdle
  /\ requests = [r \in Reqs |-> NoRequest]
  /\ holder = [k \in LockKeys |-> None]
  /\ queues = [k \in LockKeys |-> <<>>]
  /\ turn = <<>>
  /\ fullIssueArrayCache = SortByKey(NewestFirst, IssueIdOf)
  /\ fullIssueArrayCacheLastUpdateTime = Some(0)
  /\ fullEventLogCache = calculateFullEventLog(fullIssueArrayCache)
  /\ fullEventLogCacheLastUpdateTime = Some(0)
  /\ velocityCache = None
  /\ cycleTimeCache = None

\* The tracker gives story points to the epic, which was created without,
\* and to the story; it writes the empty value as the empty string.
TrackerStepRestart ==
  \/ Tick
  \/ \E i \in {EpicId, StoryId}, n \in {None, Some(5)} :
       JiraSetStoryPoints(i, n, AsEmptyString)

NextRestart ==
  \/ TrackerStepRestart
  \/ \E r \in Reqs, kind \in Kinds, to \in {0, MaxTime + 1} :
       Arrive(r, kind, 0, to, 1, PanelData)
  \/ \E r \in Reqs : Acquire(r)
  \/ \E r \in Reqs : Check(r)
  \/ \E r \in Reqs, newestFirst \in BOOLEAN : SearchResponds(r, newestFirst)
  \/ \E r \in Reqs : SearchFails(r)
  \/ \E r \in Reqs : Release(r)
  \/ \E r \in Reqs : Hop(r)
  \/ \E r \in Reqs : TargetCallback(r)
  \/ \E r \in Reqs : Answer(r)
  \/ \E r \in Reqs : ComputeEventLog(r)
  \/ \E r \in Reqs : ComputeVelocity(r)
  \/ \E r \in Reqs : ComputeCycleTime(r)
  \/ \E r \in Reqs : ComputeScope(r)
  \/ \E r \in Reqs : ReplayReturns(r)
  \/ ReplayCreated
  \/ ReplaySizeChange
  \/ ReplayThrows
  \/ ReplayFinish

SpecRestart == InitRestart /\ [][NextRestart]_vars

(***************************************************************************)
(* Specification of the metric engines: stories and bugs move through the  *)
(* workflow and a 'Rolling 2 week velocity' or 'Current 2 week average     *)
(* cycle time per point' query is served by a tracker that answers every   *)
(* search.  The story has been started at instant 0; the bug *)
(* was created either in the backlog, without a story-point size, or       *)
(* further down the value stream with one.  (InitMetrics, below.)         *)
(***************************************************************************)

(***************************************************************************)
(* Specification of the release projection: a 'Release Projection', an     *)
(* 'Initiative Release Projection' or a 'Release Progress' query arrives   *)
(* while the story of the release is resolved and moved between statuses.  *)
(* An instant of this specification is one week long, so a window ends     *)
(* half a fortnight, one fortnight or one and a half after now.            *)
(***************************************************************************)
\* 1000*60*60*24*14 milliseconds in weeks.
WeeksInTwoWeeks == 2

ComputeVelocityByWeek(r) == ComputeVelocityWithin(r, WeeksInTwoWeeks)

ProjectionCallbackByWeek(r) == ProjectionCallbackWithin(r, WeeksInTwoWeeks)

InitProjection ==
  /\ jira = [i \in IssueIds |->
               CASE i = InitiativeId -> NewIssue(i, None, None, <<>>, None)
                 [] i = EpicId -> NewIssue(i, None, None, <<>>, None)
                 [] i = StoryId -> NewIssue(i, None, None, <<ReleaseId>>, Some(20))
                 [] OTHER -> NewIssue(i, None, None, <<>>, Some(3))]
  /\ clock = 0
  /\ nextHistoryId = 1
  /\ ops = 0
  /\ InitReplayIdle
  /\ InitCacheIdle

NextProjection ==
  \/ Tick
  \/ \E r \in Resolutions : JiraSetResolution(StoryId, r)
  \/ \E to \in {"Dev", "Done"} : JiraSetStatus(StoryId, to)
  \/ \E from \in {0, 1}, to \in WindowEnds,
        policy \in {[vSource |-> "Limits", vBounds |-> NoRequest.data.vBounds],
                    [vSource |-> "Explicit", vBounds |-> [max |-> 10, cur |-> 6, min |-> 2]]} :
       Arrive(1, "release", from, to, 1,
              [PanelData EXCEPT !.toStatus = "Done", !.vSource = policy.vSource,
                                     !.vBounds = policy.vBounds])
  \/ \E from \in {0, 1}, to \in WindowEnds :
       Arrive(1, "initiative", from, to, 1, PanelData)
  \/ \E to \in WindowEnds : Arrive(1, "progress", 0, to, 1, PanelData)
  \/ \E r \in Reqs : VersionResponds(r)
  \/ \E r \in Reqs : VersionFails(r)
  \/ \E r \in Reqs : Acquire(r)
  \/ \E r \in Reqs : Check(r)
  \/ \E r \in Reqs, newestFirst \in BOOLEAN : SearchResponds(r, newestFirst)
  \/ \E r \in Reqs : Release(r)
  \/ \E r \in Reqs : Hop(r)
  \/ \E r \in Reqs : TargetCallback(r)
  \/ \E r \in Reqs : ProjectionCallbackByWeek(r)
  \/ \E r \in Reqs : Answer(r)
  \/ \E r \in Reqs : ComputeEventLog(r)
  \/ \E r \in Reqs : ComputeVelocityByWeek(r)
  \/ \E r \in Reqs : ComputeScope(r)
  \/ \E r \in Reqs : ReplayReturns(r)
  \/ ReplayCreated
  \/ ReplayResolutionChange
  \/ ReplayThrows
  \/ ReplayFinish

SpecProjection == InitProjection /\ [][NextProjection]_vars

\* Node runs every callback it has queued, each lock of async-lock passes to
\* its oldest waiter, and the tracker of this specification answers every
\* search: while the server has a step to take, it takes one.
ReplayStepProjection ==
  ReplayCreated \/ ReplayResolutionChange \/ ReplayThrows \/ ReplayFinish

ServerStepProjection ==
  \/ \E r \in Reqs : Acquire(r) \/ Check(r) \/ Release(r)
  \/ \E r \in Reqs : Hop(r) \/ TargetCallback(r) \/ ProjectionCallbackByWeek(r)
  \/ \E r \in Reqs : Answer(r) \/ VersionResponds(r)
  \/ \E r \in Reqs, newestFirst \in BOOLEAN : SearchResponds(r, newestFirst)
  \/ \E r \in Reqs : ComputeEventLog(r) \/ ComputeVelocityByWeek(r) \/ ComputeScope(r)
  \/ \E r \in Reqs : ReplayReturns(r)

\* No callback is queued and neither a search nor a version is awaited.
ServerQuiet ==
  /\ turn = <<>>
  /\ \A r \in Reqs : requests[r].state # "searching" /\ requests[r].version # "asked"

\* A step of ServerStepProjection is possible only while the server is not
\* quiet, so the second condition implies WF_vars(ServerStepProjection).
SpecProjectionLive ==
  /\ SpecProjection
  /\ WF_vars(ReplayStepProjection)
  /\ []<>ServerQuiet \/ []<><<ServerStepProjection>>_vars

InitMetrics ==
  /\ clock = 0
  /\ \E bug \in {[points |-> None, status |-> "Backlog"],
                   [points |-> Some(3), status |-> "Dev"]} :
       jira = [i \in IssueIds |->
                 CASE i = InitiativeId -> NewIssue(i, None, None, <<>>, None)
                   [] i = EpicId -> NewIssue(i, None, None, <<>>, None)
                   [] i = StoryId ->
                        AddHistory([NewIssue(i, None, None, <<>>, Some(2))
                                      EXCEPT !.status = "Dev"],
                                   1, ChangeItem("status", "status", None,
                                                 Some("Backlog"), None, Some("Dev")))
                   [] OTHER -> [NewIssue(i, None, None, <<>>, bug.points)
                                  EXCEPT !.status = bug.status]]
  /\ nextHistoryId = 2
  /\ ops = 0
  /\ InitReplayIdle
  /\ InitCacheIdle

NextMetrics ==
  \/ Tick
  \/ \E i \in LeafIds, k \in DOMAIN STATUSES : JiraSetStatus(i, STATUSES[k])
  \/ \E kind \in {"rollingVelocity", "cycleTime"}, to \in WindowEnds,
        sampling \in {[from |-> 0, intervalMs |-> 2], [from |-> 1, intervalMs |-> 1]},
        projectKey \in {None, Some("ENG")} :
       Arrive(1, kind, sampling.from, to, sampling.intervalMs,
              [fromStatus |-> "Backlog",
               toStatus |-> IF kind = "rollingVelocity" THEN "Dev" ELSE "Done",
               projectKey |-> projectKey])
  \/ \E r \in Reqs : Acquire(r)
  \/ \E r \in Reqs : Check(r)
  \/ \E r \in Reqs, newestFirst \in BOOLEAN : SearchResponds(r, newestFirst)
  \/ \E r \in Reqs : Release(r)
  \/ \E r \in Reqs : Hop(r)
  \/ \E r \in Reqs : TargetCallback(r)
  \/ \E r \in Reqs : Answer(r)
  \/ \E r \in Reqs : ComputeVelocity(r)
  \/ \E r \in Reqs : ComputeCycleTime(r)

SpecMetrics == InitMetrics /\ [][NextMetrics]_vars

(***************************************************************************)
(* Specification of concurrent metric queries: velocity and cycle-time     *)
(* queries for different completion statuses arrive while the story is     *)
(* completed, so that one waits for the lock of the cache another holds.   *)
(***************************************************************************)
NextMetricsConcurrent ==
  \/ Tick
  \/ JiraSetStatus(StoryId, "Done")
  \/ \E r \in Reqs, kind \in {"velocity", "cycleTime"}, toStatus \in {"Dev", "Done"},
        to \in WindowEnds :
       Arrive(r, kind, 0, to, 1,
              [fromStatus |-> "Backlog", toStatus |-> toStatus, projectKey |-> None])
  \/ \E r \in Reqs : Acquire(r)
  \/ \E r \in Reqs : Check(r)
  \/ \E r \in Reqs, newestFirst \in BOOLEAN : SearchResponds(r, newestFirst)
  \/ \E r \in Reqs : Release(r)
  \/ \E r \in Reqs : Hop(r)
  \/ \E r \in Reqs : TargetCallback(r)
  \/ \E r \in Reqs : Answer(r)
  \/ \E r \in Reqs : ComputeVelocity(r)
  \/ \E r \in Reqs : ComputeCycleTime(r)

SpecMetricsConcurrent == InitMetrics /\ [][NextMetricsConcurrent]_vars

(***************************************************************************)
(* Specification of a tracker in which an issue is created while the       *)
(* corpus is fetched: the bug is created at instant 1, so a search after   *)
(* it lists every older issue one place later than a search before it.     *)
(* The tracker numbers the issues of every project in one sequence: the    *)
(* bug is given the id 10, one digit longer than the ids of the others.    *)
(***************************************************************************)
LateBugId == 10

InitCreation ==
  /\ jira = [i \in IssueIds |->
               CASE i = InitiativeId -> NewIssue(i, None, None, <<>>, None)
                 [] i = EpicId -> NewIssue(i, None, None, <<>>, None)
                 [] i = StoryId -> NewIssue(i, None, Some(IssueKey(EpicId)), <<>>, Some(2))
                 [] OTHER -> [NewIssue(i, None, None, <<>>, Some(3))
                                EXCEPT !.created = 1, !.id = LateBugId]]
  /\ clock = 0
  /\ nextHistoryId = 1
  /\ ops = 0
  /\ InitReplayIdle
  /\ InitCacheIdle

NextCreation ==
  \/ Tick
  \/ \E n \in {None, Some(5)} : JiraSetStoryPoints(StoryId, n, AsNull)
  \/ \E r \in Reqs, kind \in {"velocity", "cycleTime"}, to \in WindowEnds :
       Arrive(r, kind, 0, to, 1, PanelData)
  \/ \E r \in Reqs : Acquire(r)
  \/ \E r \in Reqs : Check(r)
  \/ \E r \in Reqs, newestFirst \in BOOLEAN : SearchResponds(r, newestFirst)
  \/ \E r \in Reqs : SearchFails(r)
  \/ \E r \in Reqs : Release(r)
  \/ \E r \in Reqs : Hop(r)
  \/ \E r \in Reqs : TargetCallback(r)
  \/ \E r \in Reqs : Answer(r)
  \/ \E r \in Reqs : ComputeVelocity(r)
  \/ \E r \in Reqs : ComputeCycleTime(r)

SpecCreation == InitCreation /\ [][NextCreation]_vars

(***************************************************************************)
(* Specification of replays over an epic that joined the initiative after  *)
(* its story was created: the issues are created at instant 0, the epic    *)
(* was given its Parent Link at instant 1, where the specification starts. *)
(***************************************************************************)
InitLinkedEpic ==
  /\ clock = 1
  /\ jira = [i \in IssueIds |->
               CASE i = InitiativeId -> NewIssue(i, None, None, <<>>, None)
                 [] i = EpicId ->
                      AddHistory(NewIssue(i, Some(LinkData(InitiativeId)), None, <<>>, None),
                                 1, ChangeItem("customfield_10009", "Parent Link", None,
                                               None, None, StrOpt(Some(InitiativeId))))
                 [] i = StoryId -> NewIssue(i, None, Some(IssueKey(EpicId)), <<>>, Some(2))
                 [] OTHER -> NewIssue(i, None, None, <<>>, Some(3))]
  /\ nextHistoryId = 2
  /\ ops = 0
  /\ InitReplayIdle
  /\ InitCacheIdle

NextLinkedEpic ==
  \/ Tick
  \/ JiraSetParentLink(EpicId, None)
  \/ \E r \in Resolutions : JiraSetResolution(StoryId, r)
  \/ \E w \in Windows : StartReplay(w, InitiativeId, FALSE)
  \/ ReplayCreated
  \/ ReplayParentChange
  \/ ReplayResolutionChange
  \/ ReplayFinish

SpecLinkedEpic == InitLinkedEpic /\ [][NextLinkedEpic]_vars

(***************************************************************************)
(* Specification of cycle-time queries over a bug that was created in Dev, *)
(* past the Backlog, and completed at instant 0, and that may regress.     *)
(***************************************************************************)
InitRegression ==
  /\ clock = 0
  /\ jira = [i \in IssueIds |->
               CASE i = InitiativeId -> NewIssue(i, None, None, <<>>, None)
                 [] i = EpicId -> NewIssue(i, None, None, <<>>, None)
                 [] i = StoryId -> NewIssue(i, None, None, <<>>, Some(2))
                 [] OTHER ->
                      AddHistory([NewIssue(i, None, None, <<>>, Some(3))
                                    EXCEPT !.status = "Done"],
                                 1, ChangeItem("status", "status", None,
                                               Some("Dev"), None, Some("Done")))]
  /\ nextHistoryId = 2
  /\ ops = 0
  /\ InitReplayIdle
  /\ InitCacheIdle

NextRegression ==
  \/ Tick
  \/ \E to \in {"Backlog", "Dev"} : JiraSetStatus(BugId, to)
  \/ \E to \in WindowEnds, sampling \in {[from |-> 0, intervalMs |-> 2],
                                         [from |-> 1, intervalMs |-> 1]} :
       Arrive(1, "cycleTime", sampling.from, to, sampling.intervalMs,
              [fromStatus |-> "Backlog", toStatus |-> "Done", projectKey |-> None])
  \/ \E r \in Reqs : Acquire(r)
  \/ \E r \in Reqs : Check(r)
  \/ \E r \in Reqs, newestFirst \in BOOLEAN : SearchResponds(r, newestFirst)
  \/ \E r \in Reqs : Release(r)
  \/ \E r \in Reqs : Hop(r)
  \/ \E r \in Reqs : TargetCallback(r)
  \/ \E r \in Reqs : Answer(r)
  \/ \E r \in Reqs : ComputeCycleTime(r)

SpecRegression == InitRegression /\ [][NextRegression]_vars

(***************************************************************************)
(* Specification of the replay of any log for the initiative.  calculate-   *)
(* ScopeAndBurnupTimeseries is handed the log of the issues as created,     *)
(* the epic under the initiative, under an initiative the tracker deleted   *)
(* or under none, followed by events of a later instant that no hierarchy   *)
(* constrains: an issue moves under any other, an issue becomes the child   *)
(* of any other, a parent is named by a string that is no decimal number,   *)
(* and an issue is created a second time.                                   *)
(***************************************************************************)
\* The string " 1": a space and the digit 1.
SpaceOne == <<32, Unit.zero + 1>>

AnyLaterEvents ==
  {Event(1, StoryId, "parentChange", [NoDetails EXCEPT !.parentId = Some(EpicId)]),
   Event(1, EpicId, "parentChange", [NoDetails EXCEPT !.parentId = Some(StoryId)]),
   Event(1, EpicId, "parentChange", [NoDetails EXCEPT !.parentId = Raw(SpaceOne)]),
   Event(1, EpicId, "addChild", [NoDetails EXCEPT !.childId = Some(StoryId)]),
   Event(1, StoryId, "addChild", [NoDetails EXCEPT !.childId = Some(EpicId)]),
   Event(1, StoryId, "sizeChange", [NoDetails EXCEPT !.size = Some(5)]),
   Event(1, StoryId, "created",
         [NoDetails EXCEPT !.issueKey = Some(IssueKey(StoryId)), !.size = Some(8),
                           !.type = IssueType(StoryId)])}

AnyLogs ==
  UNION {[1..n -> AnyLaterEvents] : n \in 0..MaxLaterEvents}

InitAnyLog ==
  /\ InitTracker(InInitiative \cup {Some([id |-> DeletedId, key |-> "ENG-5"])},
                 InEpic, {None}, {<<>>}, {<<>>})
  /\ InitReplayIdle
  /\ InitCacheIdle

\* calculateScopeAndBurnupTimeseries(window, eventLog, targetId, false)
ReplayAnyLog(later) ==
  /\ turn = <<>>
  /\ BeginReplay([now |-> MaxTime, to |-> MaxTime], InitiativeId, FALSE,
                 calculateFullEventLog(Corpus) \o later)
  /\ UNCHANGED cacheVars

NextAnyLog ==
  \/ \E later \in AnyLogs : ReplayAnyLog(later)
  \/ ReplayCreated
  \/ ReplayParentChange
  \/ ReplaySizeChange
  \/ ReplayAddChild
  \/ ReplayThrows
  \/ ReplayFinish

SpecAnyLog == InitAnyLog /\ [][NextAnyLog]_vars

(***************************************************************************)
(* Specification of queries that meet the corpus out of the order of their *)
(* arrival: a 'Release Projection' target asks for the corpus twice, for    *)
(* its event log and later for the velocity bounds, and a velocity query    *)
(* that arrives in between may update the corpus for a later now.          *)
(***************************************************************************)
NextOutOfOrder ==
  \/ Tick
  \/ \E r \in Reqs, to \in WindowEnds :
       Arrive(r, "release", 0, to, 1, [PanelData EXCEPT !.toStatus = "Done"])
  \/ \E r \in Reqs, to \in WindowEnds :
       Arrive(r, "velocity", 0, to, 1, [PanelData EXCEPT !.toStatus = "Done"])
  \/ \E r \in Reqs : Acquire(r)
  \/ \E r \in Reqs : Check(r)
  \/ \E r \in Reqs, newestFirst \in BOOLEAN : SearchResponds(r, newestFirst)
  \/ \E r \in Reqs : Release(r)
  \/ \E r \in Reqs : Hop(r)
  \/ \E r \in Reqs : TargetCallback(r)
  \/ \E r \in Reqs : ProjectionCallback(r)
  \/ \E r \in Reqs : Answer(r)
  \/ \E r \in Reqs : ComputeEventLog(r)
  \/ \E r \in Reqs : ComputeVelocity(r)
  \/ \E r \in Reqs : ComputeScope(r)
  \/ \E r \in Reqs : ReplayReturns(r)
  \/ ReplayCreated
  \/ ReplayFinish

SpecOutOfOrder == InitProjection /\ [][NextOutOfOrder]_vars

(***************************************************************************)
(* Specification of concurrent queries over every lock chain: 'Release     *)
(* Projection', velocity and cycle time queries arrive while another query *)
(* holds its locks across a fetch, and the tracker answers each search     *)
(* with a page or with a failure.                                          *)
(***************************************************************************)
NextConcurrent ==
  \/ Tick
  \/ \E r \in Reqs, to \in WindowEnds :
       Arrive(r, "release", 0, to, 1, [PanelData EXCEPT !.toStatus = "Done"])
  \/ \E r \in Reqs, to \in WindowEnds :
       Arrive(r, "velocity", 0, to, 1, [PanelData EXCEPT !.toStatus = "Done"])
  \/ \E r \in Reqs, to \in WindowEnds :
       Arrive(r, "cycleTime", 0, to, 1,
              [PanelData EXCEPT !.fromStatus = "Backlog", !.toStatus = "Done"])
  \/ \E r \in Reqs : Acquire(r)
  \/ \E r \in Reqs : Check(r)
  \/ \E r \in Reqs, newestFirst \in BOOLEAN : SearchResponds(r, newestFirst)
  \/ \E r \in Reqs : SearchFails(r)
  \/ \E r \in Reqs : Release(r)
  \/ \E r \in Reqs : Hop(r)
  \/ \E r \in Reqs : TargetCallback(r)
  \/ \E r \in Reqs : ProjectionCallback(r)
  \/ \E r \in Reqs : Answer(r)
  \/ \E r \in Reqs : ComputeEventLog(r)
  \/ \E r \in Reqs : ComputeVelocity(r)
  \/ \E r \in Reqs : ComputeCycleTime(r)
  \/ \E r \in Reqs : ComputeScope(r)
  \/ \E r \in Reqs : ReplayReturns(r)
  \/ ReplayCreated
  \/ ReplayFinish

SpecConcurrent == InitProjection /\ [][NextConcurrent]_vars

ReplayStepConcurrent == ReplayCreated \/ ReplayFinish

ServerStepConcurrent ==
  \/ \E r \in Reqs : Acquire(r) \/ Check(r) \/ Release(r)
  \/ \E r \in Reqs : Hop(r) \/ TargetCallback(r) \/ ProjectionCallback(r) \/ Answer(r)
  \/ \E r \in Reqs, newestFirst \in BOOLEAN : SearchResponds(r, newestFirst)
  \/ \E r \in Reqs : SearchFails(r)
  \/ \E r \in Reqs : ComputeEventLog(r) \/ ComputeVelocity(r) \/ ComputeCycleTime(r)
  \/ \E r \in Reqs : ComputeScope(r) \/ ReplayReturns(r)

\* Node runs every callback it has queued, the synchronous replay runs to
\* its end, and every search the server awaits is answered, with a page or
\* with a failure: the server comes to rest again and again, or keeps
\* taking steps.  A step of ServerStepConcurrent is possible only while the
\* server is not quiet, so the last condition implies
\* WF_vars(ServerStepConcurrent).
SpecConcurrentLive ==
  /\ SpecConcurrent
  /\ WF_vars(ReplayStepConcurrent)
  /\ []<>ServerQuiet \/ []<><<ServerStepConcurrent>>_vars

(***************************************************************************)
(* The velocity loop by the day.  Here the tracker's clock counts days and *)
(* a fortnight is 14 of them.  'Rolling 2 week velocity' queries for a     *)
(* window that ends now arrive one after the other, each answered before   *)
(* the tracker is edited or the day passes, on a server that starts with   *)
(* empty caches.  The story and the bug were completed on day 1.           *)
(***************************************************************************)
LastDay == 13

DaysInTwoWeeks == 14

\* The days on which the tracker is edited or asked.
Days == {1, 10, 11, LastDay}

InitDays ==
  /\ clock = 1
  /\ \E bugPoints \in {None, Some(5)} :
       jira = [i \in IssueIds |->
                 CASE i \in {InitiativeId, EpicId} -> NewIssue(i, None, None, <<>>, None)
                   [] OTHER ->
                        AddHistory([NewIssue(i, None, None, <<>>,
                                             IF i = StoryId THEN Some(3) ELSE bugPoints)
                                      EXCEPT !.status = "Dev"],
                                   IF i = StoryId THEN 1 ELSE 2,
                                   ChangeItem("status", "status", None,
                                              Some("Backlog"), None, Some("Dev")))]
  /\ nextHistoryId = 3
  /\ ops = 0
  /\ InitReplayIdle
  /\ InitCacheIdle

\* No query is under way.
Settled == \A r \in Reqs : requests[r].state \in {"idle", "done", "error"}

DayPasses ==
  /\ ServerIdle /\ clock < LastDay
  /\ clock' = CHOOSE d \in Days : d > clock /\ \A e \in Days : e > clock => d <= e
  /\ UNCHANGED <<jira, nextHistoryId, ops, pc, replayVars, cacheVars>>

\* The update of the velocity cache of a server whose instant is a day.
ComputeVelocityByDay(r) == ComputeVelocityWithin(r, DaysInTwoWeeks)

NextDays ==
  \/ Settled /\ DayPasses
  \/ \E to \in {"Backlog", "Dev"} : Settled /\ JiraSetStatus(StoryId, to)
  \/ \E r \in Reqs,
        sampling \in {[back |-> 0, intervalMs |-> 1], [back |-> 2, intervalMs |-> 2]},
        addBugsDefault \in BOOLEAN :
       /\ Settled
       /\ Arrive(r, "rollingVelocity", clock - sampling.back, clock,
                 sampling.intervalMs,
                 [fromStatus |-> "Backlog", toStatus |-> "Dev", projectKey |-> None,
                  addBugsDefault |-> addBugsDefault, bugDefaultSize |-> None])
  \/ \E r \in Reqs : Acquire(r)
  \/ \E r \in Reqs : Check(r)
  \/ \E r \in Reqs, newestFirst \in BOOLEAN : SearchResponds(r, newestFirst)
  \/ \E r \in Reqs : Release(r)
  \/ \E r \in Reqs : Hop(r)
  \/ \E r \in Reqs : ComputeVelocityByDay(r)
  \/ \E r \in Reqs : TargetCallback(r)
  \/ \E r \in Reqs : Answer(r)

SpecDays == InitDays /\ [][NextDays]_vars

(***************************************************************************)
(* Properties of the replay.                                               *)
(***************************************************************************)
Replaying == pc # "tracker"

SumOver(S, F(_)) == SumSeq([k \in 1..Cardinality(S) |-> F(SetToSeq(S)[k])])

SnapshotSize(i) == ToNum(issuesAtTime[i].size)

\* The snapshots that are descendants of the target.
Descendants ==
  {i \in DOMAIN issuesAtTime : isChildOf(issuesAtTime, keyToIdMap, issuesAtTime[i], targetId)}

\* The story and bug snapshots whose versions contain the target.
InTargetRelease ==
  {i \in DOMAIN issuesAtTime :
     /\ issuesAtTime[i].type \in {"Story", "Bug"}
     /\ SeqHas(issuesAtTime[i].versions, targetId)}

CountingTowardTarget == IF isRelease THEN InTargetRelease ELSE Descendants

\* C1: during a replay for an initiative, after every processed event
\* totalScope is the sum of the sizes of the snapshots that are descendants of
\* the target, each counted once.
C1_ScopeIsDescendantSizes ==
  (Replaying /\ ~isRelease) => totalSize = SumOver(Descendants, SnapshotSize)

\* C2: during a replay, after every processed event totalDone is the sum of
\* the own sizes of the resolved snapshots that count toward the target.
C2_DoneIsResolvedSizes ==
  Replaying =>
    totalDoneSize =
      SumOver({i \in CountingTowardTarget : issuesAtTime[i].resolved}, SnapshotSize)

\* The story, linked to the epic by its own Epic Link and by the epic's Epic
\* Child entry, stands twice in the scope at the end of a replay for the
\* initiative.
C1_StoryCountedTwice ==
  /\ pc = "done" /\ eventIndex > Len(eventLog) /\ ~isRelease
  /\ Descendants = {EpicId, StoryId}
  /\ SnapshotSize(StoryId) > 0
  /\ totalSize = SumOver(Descendants, SnapshotSize) + SnapshotSize(StoryId)

\* A replay ends with a negative totalDone although no snapshot is resolved.
C2_DoneWithoutResolved ==
  /\ pc = "done" /\ eventIndex > Len(eventLog)
  /\ \A i \in DOMAIN issuesAtTime : ~issuesAtTime[i].resolved
  /\ totalDoneSize < 0

OnContainer ==
  /\ pc = "replay" /\ eventIndex <= Len(eventLog)
  /\ IssueType(CurEvent.issueId) \in {"Epic", "Initiative"}

\* C3: during a replay for a release, after every processed event totalScope
\* is the sum of the sizes of the stories and bugs whose versions contain the
\* release, and no event of an epic or initiative changes a total.
C3_ReleaseScopeIsLeafSizes ==
  [][(Replaying' /\ isRelease') =>
       /\ totalSize' = SumOver(InTargetRelease, SnapshotSize)'
       /\ OnContainer => (totalSize' = totalSize /\ totalDoneSize' = totalDoneSize)]_vars

\* A release replay ends with a positive scope although no story or bug is in
\* the release: the epic's size change was counted.
C3_EpicSizeInReleaseScope ==
  /\ pc = "done" /\ eventIndex > Len(eventLog) /\ isRelease
  /\ InTargetRelease = {}
  /\ totalSize = SnapshotSize(EpicId) /\ totalSize > 0

\* C4: with non-negative issue sizes every value recorded in the scope series
\* and in the burnup series is >= 0.
C4_SeriesNonNegative ==
  /\ \A k \in DOMAIN scopeData : scopeData[k][1] >= 0
  /\ \A k \in DOMAIN burnupData : burnupData[k][1] >= 0

\* The cached burnup series of a finished replay holds a negative value.
C4_NegativeBurnupCached ==
  /\ pc = "done" /\ scopeCache # None
  /\ \E k \in DOMAIN scopeCache[1].burnupData : scopeCache[1].burnupData[k][1] < 0

\* C5: in the event log the created event of an issue precedes every other
\* event of that issue, so the replay never meets an event of an issue that
\* has no snapshot.
C5_CreatedFirst ==
  Replaying =>
    /\ \A j, k \in DOMAIN eventLog :
         (eventLog[j].issueId = eventLog[k].issueId
            /\ eventLog[j].event = "created" /\ eventLog[k].event # "created")
         => j < k
    /\ pc # "threw"

\* The replay met a change of an issue ahead of the issue's created event, both
\* stamped with the instant of creation, and ended in a TypeError.
C5_ChangeAheadOfCreated ==
  /\ pc = "threw"
  /\ CurEvent.event # "created"
  /\ CurEvent.datetime = jira[CurEvent.issueId].created

\* The change items of an issue that satisfy Is, oldest first.
ItemsOf(issue, Is(_)) ==
  LET hs == SortByKey(issue.histories, HistoryId)
  IN SelectSeq([k \in DOMAIN hs |-> hs[k].items[1]], Is)

IsSizeItem(item) == item.fieldId = "customfield_10016"

CreatedInLog(i) ==
  eventLog[CHOOSE k \in DOMAIN eventLog :
             eventLog[k].issueId = i /\ eventLog[k].event = "created"]

\* C6: for an issue whose history changes the parent link (the story size),
\* the created event carries the parent id and key (the size) the oldest such
\* change came from.
C6_CreatedCarriesOldestFrom ==
  Replaying =>
    \A i \in IssueIds :
      LET parents == ItemsOf(jira[i], IsParentItem)
          sizes == ItemsOf(jira[i], IsSizeItem)
          created == CreatedInLog(i).eventDetails
      IN /\ parents # <<>> =>
              IF parents[1].fieldId = "customfield_10008"
                THEN /\ created.parentId = parents[1].from
                     /\ created.parentKey = parents[1].fromString
              ELSE created.parentId = IdOfString(parents[1].fromString)
         /\ sizes # <<>> => created.size = SizeFrom(sizes[1])

\* The epic was created outside the initiative and moved into it later; its
\* created event names the initiative as parentId.
C6_CreatedKeepsCurrentParent ==
  /\ Replaying
  /\ ItemsOf(jira[EpicId], IsParentItem) # <<>>
  /\ ItemsOf(jira[EpicId], IsParentItem)[1].fromString = None
  /\ CreatedInLog(EpicId).eventDetails.parentId = Some(InitiativeId)

\* The parent of an issue in the corpus.
CurrentParent(issue) ==
  IF issue.issuetype = "Epic"
    THEN IF issue.customfield_10009 = None THEN None
         ELSE Some(issue.customfield_10009[1].id)
  ELSE EpicOf(issue)

SeqToSet(s) == {s[k] : k \in DOMAIN s}

ReplayedAll == pc = "done" /\ eventIndex > Len(eventLog)

\* C7: round trip: after the replay of the whole log every snapshot has the
\* size, the parent (as an ancestry check resolves it) and the version set the
\* issue has in the corpus.
C7_ReplayReproducesCorpus ==
  (ReplayedAll /\ isRelease) =>
    \A i \in IssueIds :
      /\ SnapshotSize(i) = getIssueSize(jira[i])
      /\ ResolvedParent(keyToIdMap, issuesAtTime[i]) = CurrentParent(jira[i])
      /\ SeqToSet(issuesAtTime[i].versions) = SeqToSet(jira[i].fixVersions)

\* The story was taken out of the epic; after the replay of the whole log an
\* ancestry check still resolves its parent to the epic.
C7_StaleParentKey ==
  /\ ReplayedAll /\ isRelease
  /\ CurrentParent(jira[StoryId]) = None
  /\ ResolvedParent(keyToIdMap, issuesAtTime[StoryId]) = Some(EpicId)

(***************************************************************************)
(* Properties of the cache coordinator.                                    *)
(***************************************************************************)
\* The request is inside the function acquire(key) runs for it: it entered
\* and the promise of the function has not yet released the key.
InCS(r, key) ==
  LET q == requests[r]
      chain == LockChain(q.kind)
  IN /\ q.state \notin {"idle", "done", "error"}
     /\ \E k \in 1..q.depth :
          /\ chain[k] = key
          /\ \/ k < q.depth
             \/ q.state \in {"check", "searching", "compute", "replaying",
                             "resolved", "rejected"}

\* The variables of the cache a key guards.
CacheOf(key) ==
  CASE key = "fullIssueArrayCache" -> corpusCacheVars
    [] key = "fullEventLogCache" -> eventLogCacheVars
    [] key = "scopeAndBurnupCache" -> scopeCacheVars
    [] key = "velocityCache" -> <<velocityCache>>
    [] OTHER -> <<cycleTimeCache>>

OneRecomputationPerCache ==
  \A key \in LockKeys : Cardinality({r \in Reqs : InCS(r, key)}) <= 1

\* The step is one of the request's own callbacks.
StepOf(r) ==
  \/ requests'[r] # requests[r]
  \/ Running(r) /\ requests[r].state = "replaying"

WrittenByHolder ==
  \A key \in LockKeys :
    CacheOf(key)' # CacheOf(key) =>
      \E r \in Reqs : InCS(r, key) /\ holder[key] = Some(r) /\ StepOf(r)

\* C8: under every interleaving of the queries at most one request is
\* recomputing each cache, and every step that changes the variables of a
\* cache is a step of the request that holds the lock of that cache.
C8_CachesWrittenUnderTheirLock ==
  []OneRecomputationPerCache /\ [][WrittenByHolder]_vars

\* C8, the case: a request that has released the corpus lock is about to
\* build the event log from cached issues whose changelogs are not in id
\* order.
C8_SortsCorpusOutsideItsLock ==
  \E r \in Reqs :
    /\ Computing(r, "fullEventLogCache")
    /\ ~InCS(r, "fullIssueArrayCache")
    /\ SortHistories(fullIssueArrayCache) # fullIssueArrayCache

\* The request queued for the corpus lock behind a request whose fetch then
\* succeeded, with the corpus stale for its own window when it queued, and
\* has since run its own staleness test inside the lock.
WaitedForFetch(r) ==
  LET q == requests[r]
  IN /\ q.behind # None
     /\ q.staleWhenQueued
     /\ q.corpus # "none"
     /\ requests[q.behind[1]].corpus = "fetched"

\* C9: a request that waited for the corpus lock while another request
\* fetched the stale corpus issues no tracker search of its own.
C9_WaiterIssuesNoSearch ==
  \A r \in Reqs : WaitedForFetch(r) => requests[r].searches = 0

\* C9, amended: a request that waited for the corpus lock while another
\* request fetched the stale corpus issues no tracker search of its own when
\* the end of its window, capped at its now, is not later than the now of the
\* request that fetched.
C9_WaiterWithCoveredWindowIssuesNoSearch ==
  \A r \in Reqs :
    LET w == requests[r].window
    IN (WaitedForFetch(r)
          /\ Min(w.to, w.now) <= requests[requests[r].behind[1]].window.now)
         => requests[r].searches = 0

\* C9, the case: a request of a later query waited for the fetch of an
\* earlier one and resolved from the corpus that fetch left.
C9_LaterQueryReusedFetch ==
  \E r \in Reqs :
    /\ WaitedForFetch(r)
    /\ requests[r].corpus = "reused"
    /\ requests[r].window.now > requests[requests[r].behind[1]].window.now

\* C10: when a page of a corpus fetch fails, the corpus cache and its last
\* update time are what they were when the fetch began.
C10_FailedFetchRestoresCorpus ==
  [][\A r \in Reqs :
       (requests[r].state = "searching" /\ requests'[r].state = "rejected")
         => /\ fullIssueArrayCache' = requests[r].before[1].cache
            /\ fullIssueArrayCacheLastUpdateTime' =
                 requests[r].before[1].lastUpdateTime]_vars

\* C10, the case: a fetch failed on a later page and the cache keeps the
\* issues the earlier pages replaced.
C10_FailedFetchKeptEarlierPages ==
  \E r \in Reqs :
    /\ requests[r].state = "rejected" /\ requests[r].corpus = "failed"
    /\ requests[r].before # None
    /\ requests[r].startAt > 0
    /\ fullIssueArrayCache # requests[r].before[1].cache
    /\ fullIssueArrayCacheLastUpdateTime = requests[r].before[1].lastUpdateTime

\* C11: a query during which a tracker call failed ends with an outcome
\* delivered to its caller; once its promise chain has settled, the caller
\* has been sent a response.
C11_FailedQueryIsAnswered ==
  \A r \in Reqs :
    requests[r].state = "error" /\ requests[r].corpus = "failed"
      => requests[r].response # "none"

\* C11, the case: the chain of a query settled with the rejection of a
\* tracker call and nothing was sent to its caller.
C11_FailedQueryLeftUnanswered ==
  \E r \in Reqs :
    /\ requests[r].state = "error" /\ requests[r].corpus = "failed"
    /\ requests[r].response = "none"

\* A step of the paginated fetch of request r, as the code takes it: the
\* first search asks for startAt = 0, the callback of a page asks for the
\* next page at startAt + maxResults exactly when startAt + maxResults is
\* below the total of the response, and ends the fetch otherwise.
PagingStep(r) ==
  LET q == requests[r]
      total == Len(Matching(fullIssueArrayCacheLastUpdateTime))
  IN /\ (q.state # "searching" /\ requests'[r].state = "searching")
          => requests'[r].startAt = 0
     /\ (q.state = "searching" /\ requests'[r].state = "searching")
          => /\ requests'[r].startAt \in {q.startAt, q.startAt + MaxResults}
             /\ requests'[r].startAt # q.startAt
                  => /\ q.startAt + MaxResults < total
                     /\ requests'[r].searches = q.searches + 1
     /\ (q.state = "searching" /\ requests'[r].corpus = "fetched")
          => q.startAt + MaxResults >= total

\* C12: a corpus recomputation asks for the pages at startAt = 0, m, 2m, ...
\* one after another while it holds the corpus lock, stops at the page with
\* startAt + maxResults >= total, and when it completes the corpus holds
\* every issue a page returned, in the version of the last page that
\* returned it.  The request that fetches holds the corpus lock for as long
\* as a search of it is outstanding, so one search is outstanding at a time;
\* the fetch has completed when its last page is merged and the corpus lock
\* is still the request's.
C12_PagesMergedInOrderUnderTheLock ==
  /\ [][\A r \in Reqs : PagingStep(r)]_vars
  /\ [](\A r \in Reqs :
          /\ requests[r].state = "searching" =>
               /\ holder["fullIssueArrayCache"] = Some(r)
               /\ requests[r].startAt % MaxResults = 0
               /\ \A o \in Reqs \ {r} : requests[o].state # "searching"
          /\ ( /\ requests[r].state = "resolved" /\ requests[r].corpus = "fetched"
               /\ CurLock(requests[r]) = "fullIssueArrayCache" ) =>
               \A k \in DOMAIN requests[r].returned :
                 \E c \in DOMAIN fullIssueArrayCache :
                   fullIssueArrayCache[c] = requests[r].returned[k])

\* C12, the case: a fetch of more than one page completed over a cache that
\* held an issue the pages returned with a longer changelog.
C12_FetchedEditedIssueOverPages ==
  \E r \in Reqs :
    /\ requests[r].state = "resolved" /\ requests[r].corpus = "fetched"
    /\ CurLock(requests[r]) = "fullIssueArrayCache"
    /\ requests[r].startAt > 0
    /\ \E o \in Reqs \ {r} : requests[o].corpus = "fetched"
    /\ \E k \in DOMAIN requests[r].returned :
         requests[r].returned[k].histories # <<>>

\* The corpus holds part of an update: a fetch merged the issues of its
\* earlier pages into it and has not merged its last page, either because
\* searches of it are still to come or because one of them failed and no
\* fetch has completed since.  (The order of a changelog is not part of the
\* comparison: building the event log reorders it.)
CorpusPartlyUpdated ==
  \E o \in Reqs :
    /\ requests[o].corpus \in {"fetching", "failed"}
    /\ requests[o].before # None
    /\ fullIssueArrayCacheLastUpdateTime = requests[o].before[1].lastUpdateTime
    /\ SortHistories(fullIssueArrayCache)
         # SortHistories(requests[o].before[1].cache)

\* C13: no computation that consumes the corpus observes it with only part
\* of an update applied; what it reads is the corpus as the last completed
\* fetch left it.  The computations are the build of the event log, of the
\* velocity series and of the cycle-time series.
C13_ConsumersSeeCompleteCorpus ==
  \A r \in Reqs, key \in {"fullEventLogCache", "velocityCache", "cycleTimeCache"} :
    Computing(r, key) => ~CorpusPartlyUpdated

\* C13, the case: a request whose window the corpus covers computes from a
\* corpus in which a failed fetch replaced some issues and not others.
C13_ConsumerReadsPartlyUpdatedCorpus ==
  \E r \in Reqs :
    /\ \E key \in {"fullEventLogCache", "velocityCache", "cycleTimeCache"} :
         Computing(r, key)
    /\ requests[r].corpus = "reused"
    /\ CorpusPartlyUpdated

\* C14: when the velocity series is computed for a window, every sample
\* instant t = window.from + k * intervalMs up to min(now, to) has exactly
\* one point, and the value of the point is the sum, over the stories and
\* bugs of the requested project in the corpus, of the sizes of their
\* transitions into the completion statuses minus the sizes of their
\* transitions out of them, dated from t - 14 days to t.
C14_VelocityIsSumOverTwoWeeks ==
  [][\A r \in Reqs :
       Computing(r, "velocityCache") =>
         LET w == requests[r].window
             projectKey == requests[r].data.projectKey
             toStatuses == getFutureStatusesFromStartingStatus(
                             requests[r].data.toStatus, TRUE)
             complete(v) == \E k \in DOMAIN toStatuses : toStatuses[k] = v
             series == velocityCache'[1].velocities
             issues == fullIssueArrayCache
             counted(issue) ==
               /\ issue.issuetype \in {"Story", "Bug"}
               /\ projectKey # None => issue.project = projectKey[1]
             sign(item) ==
               IF item.field # "status" THEN 0
               ELSE IF complete(item.toString[1]) /\ ~complete(item.fromString[1])
                      THEN 1
                    ELSE IF complete(item.fromString[1]) /\ ~complete(item.toString[1])
                           THEN -1
                         ELSE 0
             ofHistory(issue, history, t) ==
               IF history.created >= t - TwoWeeks /\ history.created <= t
                 THEN SumSeq([j \in DOMAIN history.items |->
                                sign(history.items[j]) * getIssueSize(issue)])
               ELSE 0
             expected(t) ==
               SumSeq([k \in DOMAIN issues |->
                 IF counted(issues[k])
                   THEN SumSeq([h \in DOMAIN issues[k].histories |->
                                  ofHistory(issues[k], issues[k].histories[h], t)])
                 ELSE 0])
         IN \A t \in w.from..Min(w.now, w.to) :
              (t - w.from) % w.intervalMs = 0 =>
                /\ Cardinality({k \in DOMAIN series : series[k][2] = t}) = 1
                /\ \A k \in DOMAIN series :
                     series[k][2] = t => series[k][1] = expected(t)]_vars

\* C14, the case: a series was computed in which an issue completed more
\* than two weeks before a sample instant and regressed within the two
\* weeks before it, so the velocity there is negative after a positive one.
C14_VelocityWithRegressionAfterCompletion ==
  \E r \in Reqs :
    /\ requests[r].kind = "rollingVelocity" /\ requests[r].state = "resolved"
    /\ CurLock(requests[r]) = "velocityCache"
    /\ \E j, k \in DOMAIN velocityCache[1].velocities :
         /\ j < k
         /\ velocityCache[1].velocities[j][1] > 0
         /\ velocityCache[1].velocities[k][1] < 0

\* The entries of the status-change map a cycle-time computation of request
\* r works on, each with the status arrays of the request: the stories and
\* bugs of the corpus that changed status.
CycleTimeInputs(r) ==
  LET map == getStatusChangesByIssueKeyMap(
               filteredIssueArray(fullIssueArrayCache, requests[r].data.projectKey))
      withChanges == SelectSeq(map, LAMBDA e : e.statusChanges # <<>>)
  IN {[issue |-> withChanges[n].issue,
       statusChanges |-> withChanges[n].statusChanges,
       fromStatuses |-> getPreviousStatusesFromStartingStatus(
                          requests[r].data.fromStatus),
       toStatuses |-> getFutureStatusesFromStartingStatus(
                        requests[r].data.toStatus, FALSE)] : n \in DOMAIN withChanges}

\* What C15 states of one issue at one sample instant: when no status change
\* of the issue leaves the from statuses and the issue entered the to
\* statuses by the instant, calculateCycleTime is the time in days from the
\* creation of the issue to its last entry into the to statuses by then.
MeasuredFromCreation(input, toDateTime) ==
  LET inFrom(v) == \E k \in DOMAIN input.fromStatuses : input.fromStatuses[k] = v
      inTo(v) == \E k \in DOMAIN input.toStatuses : input.toStatuses[k] = v
      changes == input.statusChanges
      leavesFrom == \E i \in DOMAIN changes :
                      inFrom(changes[i].fromStatus) /\ ~inFrom(changes[i].toStatus)
      entries == {changes[i].datetime : i \in
                    {j \in DOMAIN changes :
                       /\ changes[j].datetime <= toDateTime
                       /\ inTo(changes[j].toStatus) /\ ~inTo(changes[j].fromStatus)}}
      lastEntry == CHOOSE t \in entries : \A u \in entries : u <= t
  IN (~leavesFrom /\ entries # {}) =>
       calculateCycleTime(changes, input.fromStatuses, input.toStatuses, toDateTime)
         = (lastEntry - input.issue.created) * 14

\* C15: for an issue with no transition out of a from status into a status
\* that is not one, calculateCycleTime measures from the creation timestamp
\* of the issue to its last transition into a to status at or before the
\* sample instant.
C15_CycleTimeStartsAtCreation ==
  \A r \in Reqs :
    Computing(r, "cycleTimeCache") =>
      \A input \in CycleTimeInputs(r), toDateTime \in 0..MaxTime :
        MeasuredFromCreation(input, toDateTime)

\* C15, the case: the cycle time is computed for an issue that was created
\* past the from statuses and entered the to statuses later, and the result
\* is not the time since its creation.
C15_CycleTimeStartsAtFirstStatusChange ==
  \E r \in Reqs :
    /\ Computing(r, "cycleTimeCache")
    /\ \E input \in CycleTimeInputs(r) :
         /\ input.issue.status = "Done" /\ Len(input.statusChanges) = 1
         /\ input.statusChanges[1].fromStatus = "Dev"
         /\ input.statusChanges[1].datetime > input.issue.created
         /\ ~MeasuredFromCreation(input, requests[r].window.now)

\* C16: the value calculateAverageCycleTimePerPointForIssues returns for a
\* map of issues is the arithmetic mean of cycleTime / size over exactly
\* the issues whose size is not 0, and it is NaN, not 0, when the map has
\* no such issue.  Checked for every sub-map of the issues a cycle-time
\* computation works on and every sample instant.
C16_AverageOverSizedIssues ==
  \A r \in Reqs :
    Computing(r, "cycleTimeCache") =>
      \A inputs \in SUBSET CycleTimeInputs(r), toDateTime \in 0..MaxTime :
        LET fromStatuses == getPreviousStatusesFromStartingStatus(
                              requests[r].data.fromStatus)
            toStatuses == getFutureStatusesFromStartingStatus(
                            requests[r].data.toStatus, FALSE)
            statusChangeMap ==
              SelectSeq(getStatusChangesByIssueKeyMap(
                          filteredIssueArray(fullIssueArrayCache,
                                             requests[r].data.projectKey)),
                        LAMBDA e : \E input \in inputs : input.issue = e.issue)
            sized == {input \in inputs : getIssueSize(input.issue) # 0}
            cycleTime(input) ==
              calculateCycleTime(input.statusChanges, fromStatuses, toStatuses,
                                 toDateTime)
            RECURSIVE Product(_)
            Product(S) ==
              IF S = {} THEN 1
              ELSE LET input == CHOOSE x \in S : TRUE
                   IN getIssueSize(input.issue) * Product(S \ {input})
            \* the sum of cycleTime / size, times the product of the sizes
            RECURSIVE Scaled(_)
            Scaled(S) ==
              IF S = {} THEN 0
              ELSE LET input == CHOOSE x \in S : TRUE
                   IN cycleTime(input) * Product(sized \ {input})
                      + Scaled(S \ {input})
            result == calculateAverageCycleTimePerPointForIssues(
                        statusChangeMap, fromStatuses, toStatuses, toDateTime)
        IN IF sized = {} THEN result.num = 0 /\ result.den = 0
           ELSE /\ result.den # 0
                /\ result.num * Product(sized) * Cardinality(sized)
                     = Scaled(sized) * result.den

\* C16, the case: the issues a cycle-time computation averages include one
\* without a size and one with a size and a positive cycle time.
C16_AveragedSizedAndUnsizedIssues ==
  \E r \in Reqs :
    /\ Computing(r, "cycleTimeCache")
    /\ \E a, b \in CycleTimeInputs(r) :
         /\ getIssueSize(a.issue) = 0 /\ getIssueSize(b.issue) # 0
         /\ calculateCycleTime(b.statusChanges, b.fromStatuses, b.toStatuses,
                               requests[r].window.now) > 0

\* C17: in the answer of a release projection the three projected burnup
\* lines, for the max, the cur and the min velocity bound, start at the last
\* burnup value at now and end at window.to at that value plus the bound times
\* the fortnights from now to window.to, a fortnight being two of the weeks
\* the instants count.  Under the Explicit policy the bounds are the max, cur
\* and min of the target; under the Limits policy they are the greatest, the
\* last and the least of the cached velocities from window.from on.
C17_ProjectionLinesFollowTheBounds ==
  \A r \in Reqs :
    LET q == requests[r]
        burnup == gReleaseScopeAndBurnupDataCache[q.data.releaseId[1]].burnupData
        doneNow == burnup[Len(burnup)][1]
        weeks == q.window.to - q.window.now
        names == <<"Max V projection", "Cur V projection", "Min V projection">>
        explicit == <<q.data.vBounds.max, q.data.vBounds.cur, q.data.vBounds.min>>
        cached == SelectSeq(velocityCache[1].velocities,
                            LAMBDA value : value[2] >= q.window.from)
        greatest == CHOOSE k \in DOMAIN cached : \A j \in DOMAIN cached :
                      cached[j][1] <= cached[k][1]
        least == CHOOSE k \in DOMAIN cached : \A j \in DOMAIN cached :
                   cached[k][1] <= cached[j][1]
        limits == <<cached[greatest], cached[Len(cached)], cached[least]>>
    IN q.response = "json" /\ Len(q.result) > 2 =>
         \A n \in 1..3 :
           LET line == q.result[2 + n]
               bound == IF q.data.vSource = "Explicit" THEN explicit[n]
                        ELSE limits[n][1]
           IN /\ line.target = names[n]
              /\ line.datapoints[1] = <<doneNow, q.window.now>>
              /\ line.datapoints[2][2] = q.window.to
              /\ line.datapoints[2][1] =
                   IF (weeks * bound) % 2 = 0 THEN doneNow + (weeks * bound) \div 2
                   ELSE [num |-> 2 * doneNow + weeks * bound, den |-> 2]

\* C17 witness: with the bounds 10, 6 and 2, a last burnup value of 20 reached
\* after the start of the window and one fortnight to go, the lines end at
\* 30, 26 and 22.
C17_ProjectedThirtyTwentySixTwentyTwo ==
  \E r \in Reqs :
    LET q == requests[r]
    IN /\ q.response = "json" /\ Len(q.result) > 2
       /\ q.data.vBounds = [max |-> 10, cur |-> 6, min |-> 2]
       /\ q.data.vSource = "Explicit"
       /\ q.window.to - q.window.now = WeeksInTwoWeeks
       /\ q.result[2].datapoints[1][1] = 0
       /\ q.result[3].datapoints = <<<<20, q.window.now>>, <<30, q.window.to>>>>
       /\ q.result[4].datapoints = <<<<20, q.window.now>>, <<26, q.window.to>>>>
       /\ q.result[5].datapoints = <<<<20, q.window.now>>, <<22, q.window.to>>>>

\* C18: a release projection under the Limits policy, made when the corpus
\* holds no completion or the velocity series of the window is empty, is
\* answered with projected values that are not numbers.
C18_UndefinedVelocityIsFlagged ==
  \A r \in Reqs :
    LET q == requests[r]
        completions ==
          getCompletionEvents(
            getStatusChangesByIssueKeyMap(
              filteredIssueArray(fullIssueArrayCache, q.data.projectKey)),
            getFutureStatusesFromStartingStatus(q.data.toStatus, TRUE), TRUE)
        inWindow == SelectSeq(velocityCache[1].velocities,
                              LAMBDA value : value[2] >= q.window.from)
    IN q.kind = "limits" /\ q.state \in {"done", "error"}
       /\ (completions = <<>> \/ inWindow = <<>>)
       => /\ q.response = "json" /\ Len(q.result) > 2
          /\ \A n \in 3..5 : q.result[n].datapoints[2][1] \notin Int

\* C18 witness: without any completion in the corpus the bounds are 0, 0
\* and 0, and the three projected lines are level at the last burnup value.
C18_SilentZeroVelocityProjection ==
  \E r \in Reqs :
    LET q == requests[r]
        burnup == gReleaseScopeAndBurnupDataCache[q.data.releaseId[1]].burnupData
    IN /\ q.kind = "limits" /\ q.response = "json" /\ Len(q.result) > 2
       /\ \A k \in DOMAIN fullIssueArrayCache :
            \A h \in DOMAIN fullIssueArrayCache[k].histories :
              \A j \in DOMAIN fullIssueArrayCache[k].histories[h].items :
                fullIssueArrayCache[k].histories[h].items[j].field # "status"
       /\ burnup[Len(burnup)][1] = 20
       /\ \A n \in 3..5 :
            q.result[n].datapoints = <<<<20, q.window.now>>, <<20, q.window.to>>>>

\* C19: in the scope series and in the burnup series of a replay that has
\* ended, the trailing point included, no point is earlier than the point
\* before it.
C19_TimestampsNeverDecrease ==
  pc = "done" =>
    /\ \A k \in 2..Len(scopeData) : scopeData[k - 1][2] <= scopeData[k][2]
    /\ \A k \in 2..Len(burnupData) : burnupData[k - 1][2] <= burnupData[k][2]

\* C19 witness: the log holds an event later than window.now and not later
\* than window.to; the replay records its point and then the trailing point
\* at window.now, before it.
C19_TrailingPointBeforeLastEvent ==
  /\ pc = "done"
  /\ window.now < window.to
  /\ \E k \in DOMAIN eventLog :
       /\ eventLog[k].datetime > window.now
       /\ eventLog[k].datetime <= window.to
  /\ Len(scopeData) >= 2
  /\ scopeData[Len(scopeData)][2] = window.now
  /\ scopeData[Len(scopeData) - 1][2] > window.now

\* C20: when a replay has ended, by returning or by an exception, the last
\* point of the scope series is the final total and the last point of the
\* burnup series the final done total, both at the earlier of window.now and
\* window.to; the cache entry holds the two series, neither empty, and that
\* instant as its lastUpdateTime.
C20_EveryReplayEndsWithTrailingPoints ==
  pc \in {"done", "threw"} =>
    LET earlier == IF window.now <= window.to THEN window.now ELSE window.to
    IN /\ scopeData # <<>> /\ burnupData # <<>>
       /\ scopeData[Len(scopeData)] = <<totalSize, earlier>>
       /\ burnupData[Len(burnupData)] = <<totalDoneSize, earlier>>
       /\ scopeCache = Some([scopeData |-> scopeData, burnupData |-> burnupData,
                             lastUpdateTime |-> earlier])

\* C20, the case: a replay met a change of the story ahead of its created
\* event and ended there with a TypeError: the series hold no point at the
\* earlier of window.now and window.to, and the cache holds no entry.
C20_ReplayThrewBeforeTrailingPoints ==
  /\ pc = "threw"
  /\ CurEvent.issueId = StoryId /\ CurEvent.event # "created"
  /\ ~Known(StoryId)
  /\ CurEvent.datetime = 0
  /\ \A k \in DOMAIN scopeData : scopeData[k][2] = 0
  /\ window.now > 0 /\ window.to > 0
  /\ scopeCache = None

\* C21: a velocity or cycle-time request recomputes the series only when the
\* cached entry is stale by value: there is no entry, or the project key,
\* the from or completion statuses or (for velocity) the sample interval of
\* the request differ from those of the request the entry was computed for,
\* or the earlier of the request's window.to and now lies after what the
\* entry covers.
C21_RecomputedOnlyWhenStale ==
  \A r \in Reqs :
    LET q == requests[r]
        upTo(w) == IF w.now >= w.to THEN w.to ELSE w.now
        differ(o) == \/ requests[o].data.projectKey # q.data.projectKey
                     \/ requests[o].data.toStatus # q.data.toStatus
    IN /\ q.state = "compute" /\ CurLock(q) = "velocityCache"
          => \/ velocityCache = None
             \/ differ(velocityCache[1].futureStatuses)
             \/ velocityCache[1].window.intervalMs # q.window.intervalMs
             \/ upTo(q.window) > upTo(velocityCache[1].window)
       /\ q.state = "compute" /\ CurLock(q) = "cycleTimeCache"
          => \/ cycleTimeCache = None
             \/ differ(cycleTimeCache[1].futureStatuses)
             \/ requests[cycleTimeCache[1].fromStatuses].data.fromStatus
                  # q.data.fromStatus
             \/ upTo(q.window) > cycleTimeCache[1].lastUpdateTime

\* C21, the case: a velocity request recomputes the series although the
\* entry was computed for a request with the same window, project key and
\* completion status.
C21_RecomputesFreshVelocity ==
  \E r \in Reqs :
    /\ requests[r].state = "compute" /\ CurLock(requests[r]) = "velocityCache"
    /\ velocityCache # None
    /\ velocityCache[1].futureStatuses # r
    /\ velocityCache[1].window = requests[r].window
    /\ velocityCache[1].projectKey = requests[r].data.projectKey
    /\ requests[velocityCache[1].futureStatuses].data.toStatus
         = requests[r].data.toStatus

\* C22: the epic was created under the initiative, and the story and the bug,
\* created outside any epic, were each put into the epic later.  After a
\* replay of the whole log for the initiative the scope is the sizes of the
\* two children, each added once, and no point at the instant of their
\* creation shows any scope.
C22_ChildrenAddedOnceAtAddChild ==
  ( /\ pc = "done" /\ ~isRelease /\ eventIndex > Len(eventLog)
    /\ jira[EpicId].customfield_10009 = Some(LinkData(InitiativeId))
    /\ \A i \in LeafIds :
         /\ Len(jira[i].histories) = 1
         /\ jira[i].histories[1].created > 0
         /\ jira[i].histories[1].items[1].field = "Epic Link"
         /\ jira[i].histories[1].items[1].to = Some(EpicId) )
  => /\ totalSize = SumOver(LeafIds, LAMBDA i : getIssueSize(jira[i]))
     /\ \A k \in DOMAIN scopeData : scopeData[k][2] = 0 => scopeData[k][1] = 0

\* C22, the case: in that replay no scope is recorded at the instant of the
\* children's creation, and each child is added at the instant of its
\* addChild event twice, by the addChild event of the epic and by the
\* parentChange event of the child.
C22_ChildrenAddedTwice ==
  /\ pc = "done" /\ ~isRelease /\ eventIndex > Len(eventLog)
  /\ jira[EpicId].customfield_10009 = Some(LinkData(InitiativeId))
  /\ \A i \in LeafIds :
       /\ Len(jira[i].histories) = 1
       /\ jira[i].histories[1].created > 0
       /\ jira[i].histories[1].items[1].field = "Epic Link"
       /\ jira[i].histories[1].items[1].to = Some(EpicId)
  /\ \A k \in DOMAIN scopeData : scopeData[k][2] = 0 => scopeData[k][1] = 0
  /\ totalSize = 2 * SumOver(LeafIds, LAMBDA i : getIssueSize(jira[i]))
  /\ totalSize > 0

\* C23: a replay never changes the event log it reads, and a call with the
\* log, target and window of a call that returned ends with the series and
\* the cache entry the earlier one ended with.
C23_ReplayIsIdempotent ==
  /\ [][pc = "replay" => eventLog' = eventLog]_vars
  /\ [][(pc = "replay" /\ pc' = "done" /\ scopeCache # None)
         => /\ scopeCache' = scopeCache
            /\ scopeData' = scopeCache[1].scopeData
            /\ burnupData' = scopeCache[1].burnupData]_vars

\* C23 witness: the second replay of a log for the release has processed
\* every event of it, among them the addition of the release to the story,
\* which changed the versions array of the story's snapshot, and is about to
\* end with scope and done work to record.
C23_SecondReplayAtEndOfLog ==
  /\ pc = "replay" /\ isRelease /\ scopeCache # None
  /\ eventIndex > Len(eventLog)
  /\ \E k \in DOMAIN eventLog :
       /\ eventLog[k].event = "addVersion" /\ eventLog[k].issueId = StoryId
       /\ eventLog[k].datetime <= window.to
  /\ SeqHas(issuesAtTime[StoryId].versions, ReleaseId)
  /\ Len(scopeData) >= 2 /\ Len(burnupData) >= 2
  /\ totalSize > 0 /\ totalDoneSize > 0

\* C24: the event log of the corpus is ascending by timestamp; every issue
\* has one created event; the other events of an issue are, in the order of
\* its changelog, one for each item of kind parent link or epic link, story
\* points, epic child, fix version or resolution, at the instant of the item,
\* and none for a status item; and of two events with equal timestamps the
\* one of the issue earlier in the corpus stands first, the created event of
\* an issue behind its other events.
C24_EventLogOrderedOnePerItem ==
  LET log == calculateFullEventLog(Corpus)
      kind(item) ==
        CASE item.fieldId \in {"customfield_10009", "customfield_10008"} -> "parentChange"
          [] item.fieldId = "customfield_10016" -> "sizeChange"
          [] item.field = "Epic Child" ->
               IF item.from = None THEN "addChild" ELSE "removeChild"
          [] item.fieldId = "fixVersions" ->
               IF item.from = None THEN "addVersion" ELSE "removeVersion"
          [] item.fieldId = "resolution" -> "resolutionChange"
          [] OTHER -> "none"
      items(i) == [h \in DOMAIN jira[i].histories |->
                     <<jira[i].histories[h].created,
                       kind(jira[i].histories[h].items[1])>>]
      expected(i) == SelectSeq(items(i), LAMBDA x : x[2] # "none")
      ofIssue(i) == SelectSeq(log, LAMBDA e : e.issueId = i)
      changes(i) == SelectSeq(ofIssue(i), LAMBDA e : e.event # "created")
  IN /\ \A k \in 1..(Len(log) - 1) :
          /\ log[k].datetime <= log[k + 1].datetime
          /\ log[k].datetime = log[k + 1].datetime =>
               /\ log[k].issueId <= log[k + 1].issueId
               /\ log[k].issueId = log[k + 1].issueId => log[k].event # "created"
     /\ \A i \in IssueIds :
          /\ Len(ofIssue(i)) = Len(changes(i)) + 1
          /\ \E k \in DOMAIN log : /\ log[k].issueId = i /\ log[k].event = "created"
                                   /\ log[k].datetime = jira[i].created
          /\ [k \in DOMAIN changes(i) |-> <<changes(i)[k].datetime, changes(i)[k].event>>]
               = expected(i)

\* C24 witness: the story changed status and epic, the epic gained it as a
\* child at the same instant, after the instant of creation, and the log
\* built from the corpus holds the two events of the link and none of the
\* status.
C24_StatusAndLinkItemsInCorpus ==
  /\ Len(jira[StoryId].histories) = 2
  /\ \E h \in DOMAIN jira[StoryId].histories :
       jira[StoryId].histories[h].items[1].field = "status"
  /\ \E h \in DOMAIN jira[StoryId].histories :
       /\ jira[StoryId].histories[h].items[1].field = "Epic Link"
       /\ jira[StoryId].histories[h].created > 0
  /\ jira[EpicId].histories # <<>>
  /\ pc = "replay" /\ eventIndex = 1
  /\ eventLog = calculateFullEventLog(Corpus)
  /\ Len(eventLog) = Cardinality(IssueIds) + 2

\* The points of the series a 'Rolling 2 week velocity' query was answered
\* with.
RollingVelocityAnswer(r) ==
  IF requests[r].state = "done" /\ requests[r].kind = "rollingVelocity"
    THEN requests[r].result[1].datapoints
  ELSE <<>>

\* The tracker history of the scenario of C25.
C25_Scenario ==
  /\ jira[StoryId].customfield_10016 = Some(3)
  /\ jira[BugId].customfield_10016 = Some(5)
  /\ Len(jira[BugId].histories) = 1
  /\ Len(jira[StoryId].histories) = 2
  /\ jira[StoryId].histories[2].created = 10

\* C25 as stated: the story of size 3 and the bug of size 5 were completed on
\* day 1 and the story regressed on day 10, with no other change of status;
\* the rolling velocity at the sample instant of day 13 is 8 and at the
\* sample instant of day 11 is 5.
C25_EightOnDayThirteen ==
  C25_Scenario =>
    \A r \in Reqs : \A k \in DOMAIN RollingVelocityAnswer(r) :
       LET point == RollingVelocityAnswer(r)[k]
       IN /\ point[2] = 13 => point[1] = 8
          /\ point[2] = 11 => point[1] = 5

\* C25: the story of size 3 and the bug of size 5 were completed on day 1
\* and the story regressed on day 10, with no other change of status; the
\* rolling velocity at the sample instant of day 13 is 5, as it is at the
\* sample instant of day 11: both completions and the regression lie within
\* the 14 days before either instant.
C25_FiveOnDaysElevenAndThirteen ==
  C25_Scenario =>
    \A r \in Reqs : \A k \in DOMAIN RollingVelocityAnswer(r) :
       LET point == RollingVelocityAnswer(r)[k]
       IN point[2] \in {11, 13} => point[1] = 5

\* C25 witness: the scenario happened and one query sampled days 11 and 13.
C25_SampledDaysElevenAndThirteen ==
  /\ C25_Scenario
  /\ jira[BugId].histories[1].created = 1
  /\ jira[StoryId].histories[1].created = 1
  /\ jira[StoryId].status = "Backlog"
  /\ \E r \in Reqs : /\ requests[r].corpus = "fetched"
                      /\ RollingVelocityAnswer(r) = <<<<5, 11>>, <<5, 13>>>>

\* C27 as stated: a Bug without story points that was completed within the
\* two weeks before a sample instant contributes bugDefaultSize (2 when the
\* query gives none) to the velocity of that instant when the query's data
\* sets addBugsDefault, and 0 when it does not.  The story of size 3 and the
\* unsized bug were completed on day 1 and neither changed status since.
C27_UnsizedBugCountsDefaultSize ==
  ( /\ jira[BugId].customfield_10016 = None
    /\ Len(jira[BugId].histories) = 1
    /\ Len(jira[StoryId].histories) = 1 )
  => \A r \in Reqs : \A k \in DOMAIN RollingVelocityAnswer(r) :
       LET point == RollingVelocityAnswer(r)[k]
           data == requests[r].data
           bugSize == IF ~data.addBugsDefault THEN 0
                      ELSE IF data.bugDefaultSize = None THEN 2
                           ELSE data.bugDefaultSize[1]
       IN point[2] >= 1 => point[1] = 3 + bugSize

\* C27 witness: a query with addBugsDefault set was answered with the story's
\* 3 points alone for an instant the unsized bug's completion counts for.
C27_UnsizedBugCountedZero ==
  /\ jira[BugId].customfield_10016 = None
  /\ Len(jira[BugId].histories) = 1
  /\ Len(jira[StoryId].histories) = 1
  /\ \E r \in Reqs : /\ RollingVelocityAnswer(r) = <<<<3, 1>>>>
                      /\ requests[r].data.addBugsDefault

\* C26 as stated: a query for 'Initiative Release Projection' that has
\* arrived is eventually answered, and the answer holds the Scope and the
\* Burnup series of the initiative, with the projection lines after them
\* when the window ends after now.
C26_InitiativeProjectionAnswered ==
  (requests[1].kind = "initiative" /\ requests[1].state # "idle")
    ~> ( /\ requests[1].response = "json"
         /\ Len(requests[1].result) >= 2
         /\ requests[1].result[1].target = "Scope"
         /\ requests[1].result[2].target = "Burnup"
         /\ requests[1].window.to > requests[1].window.now
              => Len(requests[1].result) > 2 )

\* C26 witness: the scope and burnup cache of the initiative was updated for
\* the query, whose window ends after now, and the query ended unanswered.
C26_InitiativeProjectionThrew ==
  /\ requests[1].kind = "initiative"
  /\ requests[1].window.to > requests[1].window.now
  /\ ScopeAndBurnupCacheEntry(FALSE, requests[1].data.initiativeId[1]) # None
  /\ requests[1].state = "error"
  /\ requests[1].response = "none"
  /\ ServerIdle

\* C30 as stated: a resolutionChange event changes totalDone only when it
\* changes whether the issue is resolved: for an issue that counts toward
\* the target, by +size when the issue was not resolved and the new
\* resolution is "Done", by -size when it was resolved and the new resolution
\* is not "Done", and by nothing otherwise.
C30_DoneFollowsResolvedness ==
  [][(InLoop("resolutionChange") /\ Known(CurEvent.issueId)
        /\ eventIndex' = eventIndex + 1)
     => LET issue == issuesAtTime[CurEvent.issueId]
            wasResolved == issue.resolved
            isResolved == CurEvent.eventDetails.resolution = Some("Done")
            counts == CountsForResolutionChange(issuesAtTime, issue)
            size == ToNum(issue.size)
        IN totalDoneSize' =
             totalDoneSize + (IF counts /\ ~wasResolved /\ isResolved THEN size
                              ELSE IF counts /\ wasResolved /\ ~isResolved THEN 0 - size
                              ELSE 0)]_vars

\* C30 witness: the replay has just handled a resolutionChange to a
\* resolution other than "Done" of an issue that was never resolved, and the
\* done total is below zero.
C30_DoneBelowZero ==
  /\ pc = "replay" /\ ~isRelease
  /\ eventIndex > 1
  /\ eventLog[eventIndex - 1].event = "resolutionChange"
  /\ eventLog[eventIndex - 1].eventDetails.resolution = Some("Won't Do")
  /\ \A k \in 1..(eventIndex - 1) :
       eventLog[k].event = "resolutionChange"
         => eventLog[k].eventDetails.resolution # Some("Done")
  /\ totalDoneSize < 0

\* C29 as stated: a removeChild event that follows the addChild event of the
\* same parent and the same known child, with no event in between, restores
\* what the addChild event changed: the child leaves the parent's children
\* list, and the totals lose what the addChild event added for the child's
\* subtree (its size to totalScope and its resolved size to totalDone, when
\* the parent counts toward the initiative).
C29_RemoveChildUndoesAddChild ==
  [][(/\ InLoop("removeChild") /\ eventIndex > 1
      /\ eventLog[eventIndex - 1].event = "addChild"
      /\ eventLog[eventIndex - 1].issueId = CurEvent.issueId
      /\ eventLog[eventIndex - 1].eventDetails.childId = CurEvent.eventDetails.childId
      /\ CurEvent.eventDetails.childId # None
      /\ Known(CurEvent.eventDetails.childId[1]) /\ Known(CurEvent.issueId)
      /\ eventIndex' = eventIndex + 1)
     => LET parent == issuesAtTime[CurEvent.issueId]
            child == issuesAtTime[CurEvent.eventDetails.childId[1]]
            counted == ~isRelease
                         /\ isChildOf(issuesAtTime, keyToIdMap, parent, targetId)
        IN /\ issuesAtTime'[parent.id].children
                = SubSeq(parent.children, 1, Len(parent.children) - 1)
           /\ totalSize' = totalSize
                - (IF counted THEN calculateTotalSize(issuesAtTime, child, FALSE) ELSE 0)
           /\ totalDoneSize' = totalDoneSize
                - (IF counted THEN calculateTotalSize(issuesAtTime, child, TRUE) ELSE 0)]_vars

\* C29 witness: the story was put into the epic of the initiative and taken
\* out again; the replay has handled the addChild and the removeChild event
\* of the epic, one after the other, and the story is still among the epic's
\* children and in the scope.
C29_ChildStaysAfterRemoveChild ==
  /\ pc = "replay" /\ ~isRelease
  /\ eventIndex > 2
  /\ eventLog[eventIndex - 2].event = "addChild"
  /\ eventLog[eventIndex - 1].event = "removeChild"
  /\ eventLog[eventIndex - 2].issueId = EpicId
  /\ eventLog[eventIndex - 1].issueId = EpicId
  /\ eventLog[eventIndex - 2].eventDetails.childId = Some(StoryId)
  /\ eventLog[eventIndex - 1].eventDetails.childId = Some(StoryId)
  /\ \A i \in LeafIds : jira[i].customfield_10008 = None
  /\ Len(issuesAtTime[EpicId].children) = 1
  /\ Deref(issuesAtTime, issuesAtTime[EpicId].children[1]).id = StoryId
  /\ totalSize = getIssueSize(jira[StoryId])
  /\ totalSize > 0

\* C28 as stated: in a replay for an initiative, a parentChange event that
\* moves an issue which was a descendant of the target to no parent leaves
\* the issue outside the target's descendants, whether its link was held by
\* parent id or by parent key, and takes the size of its subtree from
\* totalScope and the resolved size of its subtree from totalDone.
C28_MovedOutLeavesTheTarget ==
  [][(/\ InLoop("parentChange") /\ Known(CurEvent.issueId) /\ ~isRelease
      /\ isChildOf(issuesAtTime, keyToIdMap, issuesAtTime[CurEvent.issueId], targetId)
      /\ CurEvent.eventDetails.parentId = None
      /\ CurEvent.eventDetails.parentKey = None
      /\ eventIndex' = eventIndex + 1)
     => LET issue == issuesAtTime[CurEvent.issueId]
        IN /\ ~isChildOf(issuesAtTime', keyToIdMap', issuesAtTime'[issue.id], targetId)
           /\ totalSize' = totalSize - calculateTotalSize(issuesAtTime, issue, FALSE)
           /\ totalDoneSize' = totalDoneSize - calculateTotalSize(issuesAtTime, issue, TRUE)]_vars

\* C28 witness: the story was created in the epic of the initiative and taken
\* out of it; the replay has handled its parentChange event to no parent,
\* and the story is still a descendant of the initiative and in the scope.
C28_StillDescendantAfterMoveOut ==
  /\ pc = "replay" /\ ~isRelease
  /\ eventIndex > 1
  /\ eventLog[eventIndex - 1].event = "parentChange"
  /\ eventLog[eventIndex - 1].issueId = StoryId
  /\ eventLog[eventIndex - 1].eventDetails.parentId = None
  /\ eventLog[eventIndex - 1].eventDetails.parentKey = None
  /\ jira[StoryId].customfield_10008 = None
  /\ Len(jira[StoryId].histories) = 1
  /\ jira[EpicId].customfield_10009 = Some(LinkData(InitiativeId))
  /\ issuesAtTime[StoryId].parentId = None
  /\ isChildOf(issuesAtTime, keyToIdMap, issuesAtTime[StoryId], targetId)
  /\ totalSize = getIssueSize(jira[StoryId])
  /\ totalSize > 0

\* C31 as stated: in a replay for a release, a removeVersion event for a
\* version the snapshot of the issue does not hold, an addVersion event for
\* a version it already holds, and an addChild or removeChild event that
\* names a child without a snapshot each leave totalScope, totalDone and
\* the version set of the snapshot as they were, and the replay goes on to
\* the next event.
C31_RedundantEventsAreNoOps ==
  [][(/\ pc = "replay" /\ isRelease
      /\ eventIndex <= Len(eventLog) /\ CurEvent.datetime <= window.to
      /\ \/ /\ CurEvent.event = "removeVersion" /\ Known(CurEvent.issueId)
            /\ ~SeqHas(issuesAtTime[CurEvent.issueId].versions,
                       CurEvent.eventDetails.versionId[1])
         \/ /\ CurEvent.event = "addVersion" /\ Known(CurEvent.issueId)
            /\ SeqHas(issuesAtTime[CurEvent.issueId].versions,
                      CurEvent.eventDetails.versionId[1])
         \/ /\ CurEvent.event = "addChild"
            /\ ~Known(CurEvent.eventDetails.childId[1])
         \/ /\ CurEvent.event = "removeChild" /\ Known(CurEvent.issueId)
            /\ ~Known(CurEvent.eventDetails.childId[1]))
     => /\ pc' = "replay" /\ eventIndex' = eventIndex + 1
        /\ totalSize' = totalSize /\ totalDoneSize' = totalDoneSize
        /\ \A i \in DOMAIN issuesAtTime :
             /\ i \in DOMAIN issuesAtTime'
             /\ SeqToSet(issuesAtTime'[i].versions) = SeqToSet(issuesAtTime[i].versions)]_vars

\* C31 witness: the replay for the release has just handled an addVersion
\* event of the story for the release, which the story's snapshot already
\* held, and the story is in the scope more than once.
C31_VersionAddedTwice ==
  /\ pc = "replay" /\ isRelease
  /\ eventIndex > 1
  /\ eventLog[eventIndex - 1].event = "addVersion"
  /\ eventLog[eventIndex - 1].issueId = StoryId
  /\ eventLog[eventIndex - 1].eventDetails.versionId = Some(ReleaseId)
  /\ Len(SelectSeq(issuesAtTime[StoryId].versions, LAMBDA v : v = ReleaseId)) > 1
  /\ totalSize > ToNum(issuesAtTime[StoryId].size)

\* C32: when the cycle-time series is computed for a window, every sample
\* instant t = window.from + k * intervalMs up to min(now, to) has exactly
\* one point, also an instant later than the last completion event or with
\* no completion event at all, so the last point of the series, which is the
\* 'current' cycle time, is dated the latest sample instant.
C32_CycleTimePointAtEverySampleInstant ==
  [][\A r \in Reqs :
       Computing(r, "cycleTimeCache") =>
         LET w == requests[r].window
             series == cycleTimeCache'[1].cycleTimes
             instants == {t \in w.from..Min(w.now, w.to) :
                            (t - w.from) % w.intervalMs = 0}
         IN /\ \A t \in instants :
                 Cardinality({k \in DOMAIN series : series[k][2] = t}) = 1
            /\ instants # {} =>
                 /\ series # <<>>
                 /\ \A t \in instants : t <= series[Len(series)][2]]_vars

\* C32, the case: a cycle-time series was computed over a corpus in which
\* an issue completed, for a window with a sample instant at or after the
\* completion.
C32_SampledAfterLastCompletion ==
  \E r \in Reqs :
    /\ requests[r].kind = "cycleTime" /\ requests[r].state = "resolved"
    /\ CurLock(requests[r]) = "cycleTimeCache"
    /\ cycleTimeCache # None
    /\ LET w == requests[r].window
       IN \E k \in DOMAIN fullIssueArrayCache :
            LET issue == fullIssueArrayCache[k]
            IN /\ issue.issuetype \in {"Story", "Bug"}
               /\ \E h \in DOMAIN issue.histories :
                    /\ issue.histories[h].created <= Min(w.now, w.to)
                    /\ issue.histories[h].created >= w.from
                    /\ \E j \in DOMAIN issue.histories[h].items :
                         issue.histories[h].items[j].toString = Some("Done")

C34_CorpusSortedWithoutDuplicates ==
  [][\A r \in Reqs :
       requests[r].state = "searching" /\ requests'[r].state = "resolved" =>
         LET cache == fullIssueArrayCache'
             log == calculateFullEventLog(cache)
         IN /\ \A j, k \in DOMAIN cache : j < k => cache[j].id < cache[k].id
            /\ \A k \in DOMAIN cache :
                 binarySearchIssueIndex(cache, cache[k].id) = k - 1
            /\ \A k \in DOMAIN cache :
                 Cardinality({e \in DOMAIN log :
                                /\ log[e].event = "created"
                                /\ log[e].issueId = cache[k].id}) = 1]_vars

\* C34, the case: a fetch completed in which one issue that the cache did
\* not hold was carried by more than one page.
C34_NewIssueOnTwoPages ==
  \E r \in Reqs :
    /\ requests[r].state = "resolved" /\ requests[r].corpus = "fetched"
    /\ Running(r) /\ CurLock(requests[r]) = "fullIssueArrayCache"
    /\ requests[r].searches >= 2
    /\ \E j, k \in DOMAIN fullIssueArrayCache :
         j # k /\ fullIssueArrayCache[j].id = fullIssueArrayCache[k].id

\* C35: after every event the replay processes, totalDoneSize is at most
\* totalSize, so the burnup value in effect is at most the scope value in
\* effect: the last burnup point is at most the last scope point.
C35_DoneNeverExceedsScope ==
  [][pc = "replay" /\ eventIndex' = eventIndex + 1 =>
       /\ totalDoneSize' <= totalSize'
       /\ burnupData' # <<>> /\ scopeData' # <<>> =>
            burnupData'[Len(burnupData')][1] <= scopeData'[Len(scopeData')][1]]_vars

\* C35, the case: the replay processed the resolution of a story to Done
\* under the initiative, and the done total grew.
C35_ResolvedUnderTheInitiative ==
  /\ pc = "replay" /\ ~isRelease /\ eventIndex > 1
  /\ eventLog[eventIndex - 1].event = "resolutionChange"
  /\ eventLog[eventIndex - 1].eventDetails.resolution = Some("Done")
  /\ totalDoneSize > 0

\* C37: for every issue of the corpus that changed status and every sample
\* instant by which the issue has entered the to statuses, the value of
\* calculateCycleTime is not negative, also when the issue left the to
\* statuses again and left a from status later.
C37_CycleTimeNeverNegative ==
  \A r \in Reqs :
    Computing(r, "cycleTimeCache") =>
      \A input \in CycleTimeInputs(r), toDateTime \in 0..MaxTime :
        LET inTo(v) == \E k \in DOMAIN input.toStatuses : input.toStatuses[k] = v
            changes == input.statusChanges
            completed == \E i \in DOMAIN changes :
                           /\ changes[i].datetime <= toDateTime
                           /\ inTo(changes[i].toStatus) /\ ~inTo(changes[i].fromStatus)
        IN completed =>
             calculateCycleTime(changes, input.fromStatuses, input.toStatuses,
                                toDateTime) >= 0

\* C37, the case: the cycle time is computed over an issue that completed,
\* went back to a from status and left it after the completion.
C37_RegressedAfterCompletion ==
  \E r \in Reqs :
    /\ Computing(r, "cycleTimeCache")
    /\ \E input \in CycleTimeInputs(r) :
         LET inFrom(v) == \E k \in DOMAIN input.fromStatuses : input.fromStatuses[k] = v
             inTo(v) == \E k \in DOMAIN input.toStatuses : input.toStatuses[k] = v
             changes == input.statusChanges
         IN \E i, j \in DOMAIN changes :
              /\ i < j /\ changes[i].datetime < changes[j].datetime
              /\ inTo(changes[i].toStatus) /\ ~inTo(changes[i].fromStatus)
              /\ inFrom(changes[j].fromStatus) /\ ~inFrom(changes[j].toStatus)

\* C38: in the answer to a 'Release Projection' target, when padStartToWindow
\* has put a point at window.from in front of the Scope (Burnup) series, its
\* value is the total in effect at window.from as the replay recorded it:
\* the value of the last point of the cached series dated at or before
\* window.from.
C38_PaddedStartCarriesTotalInEffect ==
  \A r \in Reqs :
    LET q == requests[r]
        w == q.window
        inEffect(series, data) ==
          LET inWindow == SelectSeq(data, LAMBDA value : value[2] >= w.from)
              before == SelectSeq(data, LAMBDA value : value[2] <= w.from)
          IN (inWindow # <<>> /\ inWindow[1][2] # w.from /\ before # <<>>) =>
               series[1] = <<before[Len(before)][1], w.from>>
        cache == ScopeAndBurnupCacheEntry(TRUE, q.data.releaseId[1])
    IN (q.response = "json" /\ q.kind \in {"release", "limits"} /\ cache # None) =>
         /\ q.result[1].target = "Scope"
         /\ q.result[2].target = "Burnup"
         /\ inEffect(q.result[1].datapoints, cache[1].scopeData)
         /\ inEffect(q.result[2].datapoints, cache[1].burnupData)

\* C38, the case: a 'Release Projection' target was answered for a window
\* that starts after the first recorded point, with the Burnup series padded
\* to the start of the window.
C38_BurnupPaddedToWindowStart ==
  \E r \in Reqs :
    LET q == requests[r]
        burnup == q.result[2].datapoints
        cache == ScopeAndBurnupCacheEntry(TRUE, q.data.releaseId[1])
    IN /\ q.response = "json" /\ q.kind \in {"release", "limits"}
       /\ cache # None
       /\ cache[1].burnupData[1][2] < q.window.from
       /\ burnup[1][2] = q.window.from
       /\ \A k \in DOMAIN cache[1].burnupData :
            cache[1].burnupData[k][2] # q.window.from

\* C39: in every state of every replay isChildOf and calculateTotalSize
\* return for every snapshot: no snapshot is among its own ancestors or among
\* the children below it, no handler of the replay nests their calls without
\* end, and an ancestry check that meets a parent the snapshot table does
\* not hold is false.
C39_AncestryAndSizeTerminate ==
  pc \in {"replay", "done", "threw"} =>
    /\ ~(pc = "threw" /\ ExceedsCallStack)
    /\ \A i \in DOMAIN issuesAtTime :
         LET issue == issuesAtTime[i]
             calls == ObjectCount(issuesAtTime)
             parentId == ResolvedParent(keyToIdMap, issue)
         IN /\ isChildOfWithin(issuesAtTime, keyToIdMap, issue, targetId, calls)
                 # "RangeError"
            /\ calculateTotalSizeWithin(issuesAtTime, issue, FALSE, calls) # None
            /\ (/\ parentId # None
                /\ ~LooseEquals(parentId, targetId)
                /\ ~HasSnapshot(issuesAtTime, parentId))
                 => ~isChildOf(issuesAtTime, keyToIdMap, issue, targetId)

\* C39, the case: the story was moved under the epic, and the replay ended
\* with a RangeError at the event that moves the epic under the story: the
\* ancestry check of the epic passes from the epic to the story and from the
\* story to the epic without end.
C39_ParentsInACircleExceedTheCallStack ==
  /\ pc = "threw"
  /\ ExceedsCallStack
  /\ CurEvent.event = "parentChange" /\ CurEvent.issueId = EpicId
  /\ CurEvent.eventDetails.parentId = Some(StoryId)
  /\ issuesAtTime[StoryId].parentId = Some(EpicId)
  /\ scopeCache = None

\* The instant of a last update time, with -1 for none.
UpdateInstant(lastUpdateTime) ==
  IF lastUpdateTime = None THEN -1 ELSE lastUpdateTime[1]

\* C40: in every step of the server neither fullIssueArrayCacheLastUpdateTime
\* nor fullEventLogCacheLastUpdateTime decreases, and the last update time of
\* the event log is never later than that of the corpus, also when a request
\* meets the corpus after a request with a later now has updated it.
C40_UpdateTimesNeverDecrease ==
  [][/\ UpdateInstant(fullIssueArrayCacheLastUpdateTime')
          >= UpdateInstant(fullIssueArrayCacheLastUpdateTime)
     /\ UpdateInstant(fullEventLogCacheLastUpdateTime')
          >= UpdateInstant(fullEventLogCacheLastUpdateTime)
     /\ UpdateInstant(fullEventLogCacheLastUpdateTime')
          <= UpdateInstant(fullIssueArrayCacheLastUpdateTime')]_vars

\* C40, the case: a request is at the staleness test of the corpus, and the
\* corpus was last updated for a request with a later now.
C40_EarlierNowMeetsLaterUpdate ==
  \E r \in Reqs :
    /\ Running(r) /\ requests[r].state = "check"
    /\ CurLock(requests[r]) = "fullIssueArrayCache"
    /\ fullIssueArrayCacheLastUpdateTime # None
    /\ requests[r].window.now < fullIssueArrayCacheLastUpdateTime[1]

\* The request waits in the queue of the key.
WaitsFor(r, key) ==
  requests[r].state = "waiting" /\ CurLock(requests[r]) = key

\* C36: while every queued callback runs and every search is answered, with
\* a page or with a failure, a request that holds the lock of a cache gives
\* it up, and a request that waits for the lock of a cache comes to hold it.
C36_LocksReleasedAndWaitersServed ==
  /\ \A r \in Reqs, key \in LockKeys :
       (holder[key] = Some(r)) ~> (holder[key] # Some(r))
  /\ \A r \in Reqs, key \in LockKeys :
       WaitsFor(r, key) ~> (holder[key] = Some(r))

\* A request waits for the corpus behind a request that holds the lock of
\* the corpus inside the lock of its own cache, and whose search failed.
C36_WaitsBehindFailedFetch ==
  \E r \in Reqs, s \in Reqs :
    /\ WaitsFor(r, "fullIssueArrayCache")
    /\ holder["fullIssueArrayCache"] = Some(s)
    /\ \E key \in LockKeys \ {"fullIssueArrayCache"} : holder[key] = Some(s)
    /\ requests[s].state = "rejected"
====
